---- MODULE Spec2Model ----
(***************************************************************************)
(* Verification model of claude-cache-service.                             *)
(*                                                                         *)
(*   - internal/cache    Manager: TTL cache over a buntdb store, with      *)
(*                       Statistics counters and the asynchronous          *)
(*                       hit-count bump started by Get                     *)
(*   - internal/claude   Client.SendMessage: rate limiter, retry loop      *)
(*   - internal/sdk      Analyzer.AnalyzeAllSDKs / analyzeBatch,           *)
(*                       Analyzer.NeedsUpdate                              *)
(*   - internal/worker   UpdateWorker.updateCache, UpdateWorker.Start      *)
(*                                                                         *)
(* Each subsystem has its own specification (SpecCache, SpecStats,         *)
(* SpecClient, SpecLimiter, SpecEstimate, SpecOrch, SpecBatch,             *)
(* SpecFallback, SpecNeeds, SpecSched, SpecSplit) over the shared          *)
(* variables.                                                              *)
(***************************************************************************)
EXTENDS Integers, Sequences, FiniteSets, TLC

VARIABLES
    \* ---- cache.Manager ----
    db,        \* buntdb store: key -> CacheEntry (DOMAIN db = keys physically present)
    closed,    \* TRUE once Manager.Close has closed the database
    stats,     \* Manager.stats (Statistics)
    now,       \* the wall clock (time.Now), in ticks
    pc,        \* per caller: where the caller is inside Get/Set/Delete
    loc,       \* per caller: the locals of the call in progress
    pending,   \* key -> number of hit-count goroutines started by Get and not yet run
    ops,       \* number of API calls started so far (bounds the run)
    \* ---- history of the cache (ghost) ----
    lastSet,   \* key -> the last successful Set on it, NoSet after a Delete
    obs,       \* the outcome of the Get / Set / Delete transaction of the last step,
               \* or what the hit-count goroutine of the last step found
    calls,     \* how many Sets / hits / misses / Deletes have succeeded
    \* ---- cache.Statistics under its mutex ----
    mu,        \* Statistics.mu: the goroutine holding the write lock, the number
               \* of read locks held, the writer's progress through its updates
    rd,        \* the GetStats call in progress: position and fields read so far
    snap,      \* the Statistics value the last GetStats returned
    \* ---- claude.Client ----
    tokens,    \* tokens in the bucket of Client.limiter
    waitq,     \* SendMessage calls blocked in limiter.Wait, in arrival order
    send,      \* per SendMessage call: its position, loop variables and result
    ctx,       \* per SendMessage call: the caller's context
    hist,      \* per SendMessage call: what it has sent and received (ghost)
    \* ---- sdk.Analyzer and worker.UpdateWorker ----
    config,    \* the config.Config the worker was built with
    analyzer,  \* the analyzer.Analyzer NewUpdateWorker chose: "claude" or "mock"
               \* ("other" where analyzeBatch is run with another implementation)
    run,       \* the update run: position and locals of updateCache,
               \* AnalyzeAllSDKs and analyzeBatch
    job,       \* the BatchAnalysisResult of the BatchAnalyze call in progress
    results,   \* the []AnalysisResult of AnalyzeAllSDKs
    trouble,   \* what failed in the run, and the keys it wrote (ghost)
    \* ---- CountTokens ----
    est,       \* the last CountTokens call: who was asked, its input and result
    \* ---- UpdateWorker.Start and Analyzer.NeedsUpdate ----
    sched,     \* the Start call: its position, its context, the cron scheduler
               \* and the update runs in flight
    need,      \* the NeedsUpdate call: the SDK's repository and the last answer
    \* ---- Analyzer.AnalyzeAllSDKs over any catalog ----
    split      \* the catalog loaded, the loop index and the batches handed to
               \* analyzeBatch so far

cacheVars == <<db, closed, stats, now, pc, loc, pending, ops, lastSet, obs, calls>>

statVars == <<mu, rd, snap>>

clientVars == <<tokens, waitq, send, ctx, hist>>

orchVars == <<config, analyzer, run, job, results, trouble>>

workVars == <<sched, need, split>>

vars == <<db, closed, stats, now, pc, loc, pending, ops, lastSet, obs, calls,
          mu, rd, snap,
          tokens, waitq, send, ctx, hist,
          config, analyzer, run, job, results, trouble,
          est, sched, need, split>>

-----------------------------------------------------------------------------
\* Bounds of the model

MaxTime == 2        \* the clock runs 0..MaxTime
MaxOps  == 3        \* API calls per run

Callers == {"c1", "c2"}
Keys    == {"k1", "k2"}
Values  == {"a", "bb"}
TTLs    == {0, 1}

NoExpiry == -1      \* buntdb item without an expiry
NoSet    == [at |-> -1, value |-> "", ttl |-> 0]

-----------------------------------------------------------------------------
\* The storage engine (buntdb) as Manager uses it

\* buntdb: an item stored with SetOptions{Expires, TTL} is expired once the
\* clock is past its expiry; Get and Delete then answer ErrNotFound.
ItemExpired(e, t) == e.exat # NoExpiry /\ t > e.exat

\* tx.Get(key)
TxFound(d, k, t) == k \in DOMAIN d /\ ~ItemExpired(d[k], t)

\* tx.Set(key, value, opts)
TxSet(d, k, e) == [x \in (DOMAIN d) \cup {k} |-> IF x = k THEN e ELSE d[x]]

TxDelete_KeepsItem(d, k) == d

\* tx.Delete(key): the item leaves the store
TxDelete(d, k) == [x \in (DOMAIN d) \ {k} |-> d[x]]

TxBegins_IgnoresClose(isClosed) == TRUE

\* db.View / db.Update run their function only on an open database; on a
\* closed one they return ErrDatabaseClosed
TxBegins(isClosed) == ~isClosed

-----------------------------------------------------------------------------
\* cache.Manager

EntryExpired_IgnoresZeroTtl(e, t) == t - e.updatedAt > e.ttl

\* The expiry check of Get and of cleanup: entry.TTL > 0 && now - UpdatedAt > TTL
EntryExpired(e, t) == e.ttl > 0 /\ t - e.updatedAt > e.ttl

\* The CacheEntry Set builds, with the buntdb options it passes
NewEntry(v, ttl, t) ==
    [value |-> v, createdAt |-> t, updatedAt |-> t, hitCount |-> 0,
     size |-> Len(v), ttl |-> ttl,
     exat |-> IF ttl > 0 THEN t + ttl ELSE NoExpiry]

GetOutcome_NoTtlCheck(d, k, t) ==
    IF ~TxFound(d, k, t) THEN "notfound" ELSE "value"

\* The outcome of the read transaction of Get
GetOutcome(d, k, t) ==
    IF ~TxFound(d, k, t) THEN "notfound"
    ELSE IF EntryExpired(d[k], t) THEN "notfound"
    ELSE "value"

incrementHitCount_Upsert(d, k, t) ==
    TxSet(d, k, IF TxFound(d, k, t)
                THEN [d[k] EXCEPT !.hitCount = @ + 1, !.updatedAt = t,
                                  !.exat = NoExpiry]
                ELSE [NewEntry("", 0, t) EXCEPT !.hitCount = 1])

\* incrementHitCount: one write transaction
incrementHitCount(d, k, t) ==
    IF ~TxFound(d, k, t) THEN d
    ELSE TxSet(d, k, [d[k] EXCEPT !.hitCount = @ + 1, !.updatedAt = t,
                                  !.exat = NoExpiry])

DeleteResult_ClearsOnMiss(d, k, t) ==
    IF TxFound(d, k, t) THEN TxDelete(d, k) ELSE [x \in {} |-> 0]

\* The write transaction of Delete: tx.Delete answers ErrNotFound for a key
\* that is absent or expired, and db.Update then rolls the transaction back
DeleteResult(d, k, t) == IF TxFound(d, k, t) THEN TxDelete(d, k) ELSE d

keysToDelete_ByCreatedAt(d, t) ==
    {k \in DOMAIN d : d[k].ttl > 0 /\ t - d[k].createdAt > d[k].ttl}

\* cleanup: the keys a sweep deletes
keysToDelete(d, t) == {k \in DOMAIN d : EntryExpired(d[k], t)}

cleanup(d, t) == [x \in (DOMAIN d) \ keysToDelete(d, t) |-> d[x]]

\* Statistics helpers
recordHit(s) == [s EXCEPT !.Hits = @ + 1]

recordMiss(s) == [s EXCEPT !.Misses = @ + 1]

recordSet_ForgetsSets(s, size) ==
    [s EXCEPT !.TotalSize = @ + size, !.ItemCount = @ + 1]

recordSet(s, size) ==
    [s EXCEPT !.Sets = @ + 1, !.TotalSize = @ + size, !.ItemCount = @ + 1]

recordDelete_KeepsItemCount(s) == [s EXCEPT !.Deletes = @ + 1]

recordDelete(s) == [s EXCEPT !.Deletes = @ + 1, !.ItemCount = @ - 1]

NoLoc == [key |-> "", size |-> 0, present |-> FALSE, oldSize |-> 0]
NoObs == [op |-> "none", key |-> "", res |-> "", val |-> ""]

\* The cache after NewManager
CacheStart ==
    /\ db = [k \in {} |-> 0]
    /\ closed = FALSE
    /\ stats = [Hits |-> 0, Misses |-> 0, Sets |-> 0, Deletes |-> 0,
                TotalSize |-> 0, ItemCount |-> 0]
    /\ now = 0
    /\ pc = [c \in Callers |-> "idle"]
    /\ loc = [c \in Callers |-> NoLoc]
    /\ pending = [k \in Keys |-> 0]
    /\ ops = 0
    /\ lastSet = [k \in Keys |-> NoSet]
    /\ obs = NoObs
    /\ calls = [sets |-> 0, hits |-> 0, misses |-> 0, deletes |-> 0]

\* Manager.Set up to the end of its write transaction
SetTx(c, k, v, ttl) ==
    /\ pc[c] = "idle" /\ ops < MaxOps
    /\ ops' = ops + 1
    /\ IF ~TxBegins(closed)
       THEN /\ obs' = [op |-> "Set", key |-> k, res |-> "error", val |-> ""]
            /\ UNCHANGED <<db, pc, loc, lastSet, calls>>
       ELSE /\ db' = TxSet(db, k, NewEntry(v, ttl, now))
            /\ pc' = [pc EXCEPT ![c] = "recordSet"]
            /\ loc' = [loc EXCEPT ![c] =
                         [key |-> k, size |-> Len(v), present |-> k \in DOMAIN db,
                          oldSize |-> IF k \in DOMAIN db THEN db[k].size ELSE 0]]
            /\ lastSet' = [lastSet EXCEPT ![k] = [at |-> now, value |-> v, ttl |-> ttl]]
            /\ obs' = [op |-> "Set", key |-> k, res |-> "ok", val |-> v]
            /\ calls' = [calls EXCEPT !.sets = @ + 1]
    /\ UNCHANGED <<closed, stats, now, pending>>
    /\ UNCHANGED <<statVars, clientVars, orchVars, est, workVars>>

\* Manager.Set: m.recordSet(entry.Size) and return
SetRecord(c) ==
    /\ pc[c] = "recordSet"
    /\ stats' = recordSet(stats, loc[c].size)
    /\ pc' = [pc EXCEPT ![c] = "idle"]
    /\ loc' = [loc EXCEPT ![c] = NoLoc]
    /\ UNCHANGED <<db, closed, now, pending, ops, lastSet, calls>>
    /\ obs' = NoObs
    /\ UNCHANGED <<statVars, clientVars, orchVars, est, workVars>>


\* Manager.Get up to the end of its read transaction; on success the
\* hit-count goroutine is started
GetTx(c, k) ==
    /\ pc[c] = "idle" /\ ops < MaxOps
    /\ ops' = ops + 1
    /\ IF ~TxBegins(closed)
       THEN /\ obs' = [op |-> "Get", key |-> k, res |-> "error", val |-> ""]
            /\ UNCHANGED <<pc, loc, pending, calls>>
       ELSE LET r == GetOutcome(db, k, now) IN
            /\ obs' = [op |-> "Get", key |-> k, res |-> r,
                       val |-> IF r = "value" THEN db[k].value ELSE ""]
            /\ loc' = [loc EXCEPT ![c] = [NoLoc EXCEPT !.key = k]]
            /\ IF r = "value"
               THEN /\ pc' = [pc EXCEPT ![c] = "recordHit"]
                    /\ pending' = [pending EXCEPT ![k] = @ + 1]
                    /\ calls' = [calls EXCEPT !.hits = @ + 1]
               ELSE /\ pc' = [pc EXCEPT ![c] = "recordMiss"]
                    /\ calls' = [calls EXCEPT !.misses = @ + 1]
                    /\ UNCHANGED pending
    /\ UNCHANGED <<db, closed, stats, now, lastSet>>
    /\ UNCHANGED <<statVars, clientVars, orchVars, est, workVars>>

\* Manager.Get: m.recordHit() and return value
GetRecordHit(c) ==
    /\ pc[c] = "recordHit"
    /\ stats' = recordHit(stats)
    /\ pc' = [pc EXCEPT ![c] = "idle"]
    /\ loc' = [loc EXCEPT ![c] = NoLoc]
    /\ UNCHANGED <<db, closed, now, pending, ops, lastSet, calls>>
    /\ obs' = NoObs
    /\ UNCHANGED <<statVars, clientVars, orchVars, est, workVars>>

\* Manager.Get: m.recordMiss() and return "key not found"
GetRecordMiss(c) ==
    /\ pc[c] = "recordMiss"
    /\ stats' = recordMiss(stats)
    /\ pc' = [pc EXCEPT ![c] = "idle"]
    /\ loc' = [loc EXCEPT ![c] = NoLoc]
    /\ UNCHANGED <<db, closed, now, pending, ops, lastSet, calls>>
    /\ obs' = NoObs
    /\ UNCHANGED <<statVars, clientVars, orchVars, est, workVars>>

\* Manager.Delete up to the end of its write transaction; ErrNotFound is
\* not an error for Delete, a closed database is
DeleteTx(c, k) ==
    /\ pc[c] = "idle" /\ ops < MaxOps
    /\ ops' = ops + 1
    /\ IF ~TxBegins(closed)
       THEN /\ obs' = [op |-> "Delete", key |-> k, res |-> "error", val |-> ""]
            /\ UNCHANGED <<db, pc, loc, lastSet, calls>>
       ELSE /\ db' = DeleteResult(db, k, now)
            /\ pc' = [pc EXCEPT ![c] = "recordDelete"]
            /\ loc' = [loc EXCEPT ![c] = [NoLoc EXCEPT !.key = k,
                                                     !.present = TxFound(db, k, now)]]
            /\ lastSet' = [lastSet EXCEPT ![k] = NoSet]
            /\ obs' = [op |-> "Delete", key |-> k, res |-> "ok", val |-> ""]
            /\ calls' = [calls EXCEPT !.deletes = @ + 1]
    /\ UNCHANGED <<closed, stats, now, pending>>
    /\ UNCHANGED <<statVars, clientVars, orchVars, est, workVars>>

\* Manager.Delete: m.recordDelete() and return nil
DeleteRecord(c) ==
    /\ pc[c] = "recordDelete"
    /\ stats' = recordDelete(stats)
    /\ pc' = [pc EXCEPT ![c] = "idle"]
    /\ loc' = [loc EXCEPT ![c] = NoLoc]
    /\ UNCHANGED <<db, closed, now, pending, ops, lastSet, calls>>
    /\ obs' = NoObs
    /\ UNCHANGED <<statVars, clientVars, orchVars, est, workVars>>

\* The goroutine started by Get runs incrementHitCount(key); on a closed
\* database the update fails and is only logged
Bump(k) ==
    /\ pending[k] > 0
    /\ pending' = [pending EXCEPT ![k] = @ - 1]
    /\ db' = IF TxBegins(closed) THEN incrementHitCount(db, k, now) ELSE db
    /\ UNCHANGED <<closed, stats, now, pc, loc, ops, lastSet, calls>>
    /\ obs' = [NoObs EXCEPT !.key = k,
                            !.res = IF TxBegins(closed) /\ TxFound(db, k, now)
                                    THEN "bumped" ELSE "gone"]
    /\ UNCHANGED <<statVars, clientVars, orchVars, est, workVars>>

\* cleanupRoutine: one sweep of the reaper
Cleanup ==
    /\ ~closed
    /\ db' = cleanup(db, now)
    /\ UNCHANGED <<closed, stats, now, pc, loc, pending, ops, lastSet, calls>>
    /\ obs' = NoObs
    /\ UNCHANGED <<statVars, clientVars, orchVars, est, workVars>>

\* Manager.Close
Close ==
    /\ ~closed
    /\ closed' = TRUE
    /\ UNCHANGED <<db, stats, now, pc, loc, pending, ops, lastSet, calls>>
    /\ obs' = NoObs
    /\ UNCHANGED <<statVars, clientVars, orchVars, est, workVars>>

\* time passes
Tick ==
    /\ now < MaxTime
    /\ now' = now + 1
    /\ UNCHANGED <<db, closed, stats, pc, loc, pending, ops, lastSet, calls>>
    /\ obs' = NoObs
    /\ UNCHANGED <<statVars, clientVars, orchVars, est, workVars>>

NextCache ==
    \/ \E c \in Callers, k \in Keys, v \in Values, ttl \in TTLs : SetTx(c, k, v, ttl)
    \/ \E c \in Callers : SetRecord(c)
    \/ \E c \in Callers, k \in Keys : GetTx(c, k)
    \/ \E c \in Callers : GetRecordHit(c)
    \/ \E c \in Callers : GetRecordMiss(c)
    \/ \E c \in Callers, k \in Keys : DeleteTx(c, k)
    \/ \E c \in Callers : DeleteRecord(c)
    \/ \E k \in Keys : Bump(k)
    \/ Cleanup
    \/ Close
    \/ Tick

-----------------------------------------------------------------------------
\* Properties of the cache

Quiescent == \A c \in Callers : pc[c] = "idle"

\* C1: after Set(k, v, ttl) with ttl > 0 and no later Set (or Delete) on k,
\* a Get(k) before ttl has elapsed since the Set returns v, and every Get(k)
\* after ttl has elapsed since the Set returns NotFound, whatever Gets and
\* hit-count bumps happened in between.
C1_GetFollowsTtlOfSet ==
    (/\ obs.op = "Get" /\ obs.res # "error"
     /\ lastSet[obs.key] # NoSet /\ lastSet[obs.key].ttl > 0)
    => LET s == lastSet[obs.key] IN
       /\ (now - s.at < s.ttl => obs.res = "value" /\ obs.val = s.value)
       /\ (now - s.at > s.ttl => obs.res = "notfound")

\* C2: after any sequence of Set, Get and Delete calls (no call in progress)
\* ItemCount is >= 0, and a Delete that removed nothing leaves ItemCount as
\* it was.
C2_ItemCountNeverNegative ==
    [][/\ Quiescent' => stats'.ItemCount >= 0
       /\ \A c \in Callers :
            (pc[c] = "recordDelete" /\ pc'[c] = "idle" /\ ~loc[c].present)
            => stats'.ItemCount = stats.ItemCount]_vars

\* C3: a Set on a key already present leaves ItemCount unchanged and changes
\* TotalSize by len(v) minus the size of the replaced entry; a Set on a key
\* not present adds 1 to ItemCount and len(v) to TotalSize.
C3_SetCounters ==
    [][\A c \in Callers :
         (pc[c] = "recordSet" /\ pc'[c] = "idle")
         => IF loc[c].present
            THEN /\ stats'.ItemCount = stats.ItemCount
                 /\ stats'.TotalSize = stats.TotalSize + loc[c].size - loc[c].oldSize
            ELSE /\ stats'.ItemCount = stats.ItemCount + 1
                 /\ stats'.TotalSize = stats.TotalSize + loc[c].size]_vars

\* C9: when no call is in progress, after N successful Sets, H hits, M misses
\* and D Deletes the counters are Sets = N, Hits = H, Misses = M, Deletes = D
\* and ItemCount = N - D.
C9_StatsCountCalls ==
    Quiescent =>
        /\ stats.Sets = calls.sets
        /\ stats.Hits = calls.hits
        /\ stats.Misses = calls.misses
        /\ stats.Deletes = calls.deletes
        /\ stats.ItemCount = calls.sets - calls.deletes

C9_Witness ==
    /\ Quiescent
    /\ calls.sets >= 1 /\ calls.hits >= 1 /\ calls.deletes >= 1
    /\ stats.Sets = calls.sets

\* C10: under every interleaving of concurrent callers no counter update is
\* lost (once all calls have returned Sets, Deletes and Hits + Misses equal the
\* numbers of successful calls) and TotalSize >= 0 throughout.
C10_NoLostUpdate ==
    /\ stats.TotalSize >= 0
    /\ Quiescent =>
         /\ stats.Sets = calls.sets
         /\ stats.Deletes = calls.deletes
         /\ stats.Hits + stats.Misses = calls.hits + calls.misses

\* two callers inside Set and Delete on the same key at the same time, after
\* a Get on it
C10_Witness ==
    /\ pc["c1"] = "recordSet" /\ pc["c2"] = "recordDelete"
    /\ loc["c1"].key = loc["c2"].key
    /\ calls.hits + calls.misses >= 1

\* C11: a Get that does not fail on the storage returns NotFound exactly when
\* the key is absent or its entry has ttl > 0 and now - updatedAt > ttl; a Get
\* that returns a value adds 1 to Hits and leaves Misses, a Get that returns
\* NotFound adds 1 to Misses and leaves Hits, and a Get that fails on a
\* storage error returns another outcome than NotFound and changes no counter.
C11_GetOutcomes ==
    [][/\ (obs'.op = "Get" /\ obs'.res # "error") =>
            /\ obs'.res = "notfound" <=>
                 (\/ obs'.key \notin DOMAIN db'
                  \/ EntryExpired(db'[obs'.key], now'))
            /\ \E c \in Callers :
                 /\ pc[c] = "idle"
                 /\ pc'[c] = IF obs'.res = "value" THEN "recordHit" ELSE "recordMiss"
       /\ (obs'.op = "Get" /\ obs'.res = "error") =>
            /\ stats' = stats
            /\ pc' = pc
       /\ \A c \in Callers :
            /\ (pc[c] = "recordHit" /\ pc'[c] = "idle") =>
                 stats' = [stats EXCEPT !.Hits = @ + 1]
            /\ (pc[c] = "recordMiss" /\ pc'[c] = "idle") =>
                 stats' = [stats EXCEPT !.Misses = @ + 1]]_vars

\* a Get has returned NotFound for an entry that is still stored (lazy
\* expiry), after a Get that hit
C11_Witness ==
    /\ obs.op = "Get" /\ obs.res = "notfound"
    /\ obs.key \in DOMAIN db
    /\ stats.Hits >= 1

\* C12: after Set(k, v, 0), every later Get(k) returns v, for any elapsed
\* time and any reaper sweeps and Gets in between, until a Set or Delete on k.
C12_ZeroTtlNeverExpires ==
    /\ (/\ obs.op = "Get" /\ obs.res # "error"
        /\ lastSet[obs.key] # NoSet /\ lastSet[obs.key].ttl = 0)
       => /\ obs.res = "value"
          /\ obs.val = lastSet[obs.key].value
    /\ \A k \in Keys :
         (lastSet[k] # NoSet /\ lastSet[k].ttl = 0) =>
            /\ k \in DOMAIN db
            /\ GetOutcome(db, k, now) = "value"

\* a Get returns the value MaxTime ticks after the Set with ttl 0, after an
\* earlier Get whose hit-count bump has run
C12_Witness ==
    /\ obs.op = "Get" /\ obs.res = "value"
    /\ lastSet[obs.key].ttl = 0 /\ lastSet[obs.key] # NoSet
    /\ now - lastSet[obs.key].at = MaxTime
    /\ db[obs.key].hitCount >= 1

C14_DeleteIdempotent ==
    [][(obs'.op = "Delete" /\ TxBegins(closed)) =>
          /\ obs'.res = "ok"
          /\ ~TxFound(db, obs'.key, now) => db' = db
          /\ DeleteResult(db', obs'.key, now') = db']_vars

\* the second of two Deletes has returned, its key is absent and another
\* entry is stored
C14_Witness ==
    /\ obs.op = "Delete" /\ obs.res = "ok"
    /\ calls.deletes = 2
    /\ obs.key \notin DOMAIN db
    /\ DOMAIN db # {}

\* C16: after Close, every Get, Set and Delete returns an error, returns no
\* value, leaves the stored entries as they are and changes no counter.
C16_NothingAfterClose ==
    [][closed =>
          /\ db' = db
          /\ obs'.op # "none" =>
                /\ obs'.res = "error" /\ obs'.val = ""
                /\ stats' = stats
                /\ pc' = pc /\ pending' = pending]_vars

\* a Get after Close has returned an error for a key whose entry is stored
\* and not expired
C16_Witness ==
    /\ closed
    /\ obs.op = "Get" /\ obs.res = "error"
    /\ GetOutcome(db, obs.key, now) = "value"

\* C30: a sweep of the reaper removes exactly the stored entries with ttl > 0
\* and now - updatedAt > ttl, which are exactly the stored entries for which
\* Get answers NotFound, and leaves the others as they are: what Get would
\* return is still there after the sweep, and Get returns whatever is there
\* after it.
C30_SweepMatchesGet ==
    [][Cleanup =>
        LET swept == {k \in DOMAIN db :
                        db[k].ttl > 0 /\ now - db[k].updatedAt > db[k].ttl}
        IN /\ (DOMAIN db) \ (DOMAIN db') = swept
           /\ \A k \in DOMAIN db' : k \in DOMAIN db /\ db'[k] = db[k]
           /\ \A k \in DOMAIN db :
                 (GetOutcome(db, k, now) = "notfound") <=> (k \in swept)
           /\ \A k \in DOMAIN db :
                 GetOutcome(db, k, now) = "value" => k \in DOMAIN db'
           /\ \A k \in DOMAIN db' : GetOutcome(db', k, now) = "value"]_vars

\* a sweep has removed an entry that was set and never deleted, and has left
\* another one, which Get returns
C30_Witness ==
    \E k1, k2 \in Keys :
        /\ lastSet[k1] # NoSet /\ k1 \notin DOMAIN db
        /\ k2 \in DOMAIN db /\ GetOutcome(db, k2, now) = "value"

\* the sum of the sizes of the entries stored under the keys in S
RECURSIVE StoredSize(_)
StoredSize(S) ==
    IF S = {} THEN 0
    ELSE LET k == CHOOSE x \in S : TRUE
         IN db[k].size + StoredSize(S \ {k})

\* C35: whenever no call is in progress, ItemCount is the number of entries
\* present in the store and TotalSize is the sum of their sizes.
C35_StatsAgreeWithStore ==
    Quiescent =>
        /\ stats.ItemCount = Cardinality(DOMAIN db)
        /\ stats.TotalSize = StoredSize(DOMAIN db)

\* C39: the hit-count bump of a Get neither brings a key back nor loses a
\* write: a bump on a key that is not stored stores nothing, a bump on a
\* stored key leaves its value, and no bump touches another key; so after a
\* Delete(k) the key stays unreadable whatever bumps run, and a stored entry
\* always holds the value of the last Set on its key.
C39_BumpKeepsStore ==
    /\ [][\A k \in Keys : Bump(k) =>
            /\ k \notin DOMAIN db => db' = db
            /\ k \in DOMAIN db =>
                  /\ DOMAIN db' = DOMAIN db
                  /\ db'[k].value = db[k].value
                  /\ \A x \in DOMAIN db \ {k} : db'[x] = db[x]]_vars
    /\ [](\A k \in Keys :
            /\ lastSet[k] = NoSet => ~TxFound(db, k, now)
            /\ (lastSet[k] # NoSet /\ k \in DOMAIN db)
                  => db[k].value = lastSet[k].value)

\* the bump of a Get that hit k has just run after the Delete of k and has
\* found nothing to rewrite
C39_Witness ==
    /\ obs.op = "none" /\ obs.res = "gone" /\ obs.key \in Keys
    /\ lastSet[obs.key] = NoSet
    /\ calls.hits >= 1 /\ calls.deletes >= 1
    /\ obs.key \notin DOMAIN db
    /\ ~closed

\* C34: once Get(k) answers NotFound because the entry of k is expired or
\* absent, it answers NotFound in every later state until a Set on k,
\* whatever pending hit-count bumps run in between. (What a Get of k answers
\* in a state is GetOutcome; a Get can be called in every state.)
C34_ExpiryIsPermanent ==
    [][\A k \in Keys :
         (/\ GetOutcome(db, k, now) = "notfound"
          /\ ~(obs'.op = "Set" /\ obs'.key = k /\ obs'.res = "ok"))
            => GetOutcome(db', k, now') = "notfound"]_vars

-----------------------------------------------------------------------------
\* cache.Statistics: the record helpers and GetStats, step by step under
\* Statistics.mu (sync.RWMutex)

Fields == <<"Hits", "Misses", "Sets", "Deletes", "TotalSize", "ItemCount">>

RecordOps == {"recordHit", "recordMiss", "recordSet", "recordDelete"}

ZeroStats == [Hits |-> 0, Misses |-> 0, Sets |-> 0, Deletes |-> 0,
              TotalSize |-> 0, ItemCount |-> 0]

NoMu == [writer |-> "none", readers |-> 0, step |-> 0]
NoRd == [pc |-> "idle", n |-> 0, got |-> ZeroStats, at |-> ZeroStats]
NoSnap == [taken |-> FALSE, fields |-> ZeroStats, at |-> ZeroStats]

StatsStart ==
    /\ mu = NoMu
    /\ rd = NoRd
    /\ snap = NoSnap

\* The statements a record helper runs between Lock and Unlock, in order
Updates(op, size) ==
    CASE op = "recordHit"    -> << <<"Hits", 1>> >>
      [] op = "recordMiss"   -> << <<"Misses", 1>> >>
      [] op = "recordSet"    -> << <<"Sets", 1>>, <<"TotalSize", size>>,
                                   <<"ItemCount", 1>> >>
      [] op = "recordDelete" -> << <<"Deletes", 1>>, <<"ItemCount", -1>> >>

\* mu.Lock() goes through when nobody holds the mutex
CanLock(m) == m.writer = "none" /\ m.readers = 0

CanRLock_Unguarded(m) == TRUE

\* mu.RLock() goes through when no writer holds the mutex
CanRLock(m) == m.writer = "none"

\* A Get, Set or Delete of caller c has finished its transaction and calls
\* its record helper
StatsCall(c, op, size) ==
    /\ pc[c] = "idle" /\ ops < MaxOps
    /\ ops' = ops + 1
    /\ pc' = [pc EXCEPT ![c] = op]
    /\ loc' = [loc EXCEPT ![c] = [NoLoc EXCEPT !.size = size]]
    /\ UNCHANGED <<db, closed, stats, now, pending, lastSet, obs, calls>>
    /\ UNCHANGED <<statVars, clientVars, orchVars, est, workVars>>

\* m.stats.mu.Lock()
MuLock(c) ==
    /\ pc[c] \in RecordOps /\ mu.writer # c
    /\ CanLock(mu)
    /\ mu' = [mu EXCEPT !.writer = c, !.step = 0]
    /\ UNCHANGED <<rd, snap>>
    /\ UNCHANGED <<cacheVars, clientVars, orchVars, est, workVars>>

\* the next statement of the record helper
FieldUpdate(c) ==
    /\ mu.writer = c
    /\ mu.step < Len(Updates(pc[c], loc[c].size))
    /\ LET u == Updates(pc[c], loc[c].size)[mu.step + 1] IN
       stats' = [stats EXCEPT ![u[1]] = @ + u[2]]
    /\ mu' = [mu EXCEPT !.step = @ + 1]
    /\ UNCHANGED <<db, closed, now, pc, loc, pending, ops, lastSet, obs, calls>>
    /\ UNCHANGED <<rd, snap>>
    /\ UNCHANGED <<clientVars, orchVars, est, workVars>>

\* m.stats.mu.Unlock(), and the record helper returns
MuUnlock(c) ==
    /\ mu.writer = c
    /\ mu.step = Len(Updates(pc[c], loc[c].size))
    /\ mu' = [mu EXCEPT !.writer = "none", !.step = 0]
    /\ pc' = [pc EXCEPT ![c] = "idle"]
    /\ loc' = [loc EXCEPT ![c] = NoLoc]
    /\ UNCHANGED <<db, closed, stats, now, pending, ops, lastSet, obs, calls>>
    /\ UNCHANGED <<rd, snap>>
    /\ UNCHANGED <<clientVars, orchVars, est, workVars>>

\* GetStats: m.stats.mu.RLock()
GetStatsRLock ==
    /\ rd.pc = "idle"
    /\ CanRLock(mu)
    /\ mu' = [mu EXCEPT !.readers = @ + 1]
    /\ rd' = [pc |-> "read", n |-> 0, got |-> ZeroStats, at |-> stats]
    /\ UNCHANGED snap
    /\ UNCHANGED <<cacheVars, clientVars, orchVars, est, workVars>>

\* GetStats: the next field of the Statistics literal is read
GetStatsRead ==
    /\ rd.pc = "read" /\ rd.n < Len(Fields)
    /\ rd' = [rd EXCEPT !.n = @ + 1,
                        !.got[Fields[rd.n + 1]] = stats[Fields[rd.n + 1]]]
    /\ UNCHANGED <<mu, snap>>
    /\ UNCHANGED <<cacheVars, clientVars, orchVars, est, workVars>>

\* GetStats returns the Statistics value; the deferred RUnlock runs
GetStatsReturn ==
    /\ rd.pc = "read" /\ rd.n = Len(Fields)
    /\ snap' = [taken |-> TRUE, fields |-> rd.got, at |-> rd.at]
    /\ mu' = [mu EXCEPT !.readers = @ - 1]
    /\ rd' = NoRd
    /\ UNCHANGED <<cacheVars, clientVars, orchVars, est, workVars>>

NextStats ==
    \/ \E c \in Callers, op \in RecordOps, v \in Values :
          StatsCall(c, op, IF op = "recordSet" THEN Len(v) ELSE 0)
    \/ \E c \in Callers : MuLock(c)
    \/ \E c \in Callers : FieldUpdate(c)
    \/ \E c \in Callers : MuUnlock(c)
    \/ GetStatsRLock
    \/ GetStatsRead
    \/ GetStatsReturn

\* C15: the six fields GetStats returns are the counters of one single
\* state (the one at its RLock), so no partly applied update shows (ItemCount
\* is Sets - Deletes in every snapshot), and a returned snapshot changes only
\* by the return of a later GetStats.
C15_SnapshotIsPointInTime ==
    [][/\ snap'.taken =>
            /\ snap'.fields = snap'.at
            /\ snap'.fields.ItemCount = snap'.fields.Sets - snap'.fields.Deletes
       /\ snap' # snap => (rd.pc = "read" /\ rd'.pc = "idle")]_vars

\* a snapshot taken after a Set is held while a later record helper is in
\* the middle of its updates and the counters have moved on
C15_Witness ==
    /\ snap.taken /\ snap.fields.Sets >= 1
    /\ mu.writer # "none" /\ mu.step = 1
    /\ stats # snap.fields

-----------------------------------------------------------------------------
\* claude.Client

maxRetries == 3     \* attempts of SendMessage
RetryDelay == 1     \* base backoff delay
Burst == 1     \* bucket size of the limiter (NewClient builds one of 5)

Sends == {"s1", "s2", "s3"}

\* the SendMessage calls that run in SpecClient
Concurrent == {"s1", "s2"}

\* What one HTTP exchange can give: a transport failure, or a status with a
\* body that is a JSON object or is not
Statuses  == {200, 400, 429, 500}
Responses == {[kind |-> "transport", status |-> 0, json |-> FALSE]}
             \cup [kind : {"http"}, status : Statuses, json : BOOLEAN]

NoErr == [kind |-> "nil", status |-> 0, ctx |-> FALSE]
APIError(st) == [kind |-> "api", status |-> st, ctx |-> FALSE]
\* an error built with fmt.Errorf; ctx: it wraps the context's error
PlainErr(c) == [kind |-> "plain", status |-> 0, ctx |-> c]

\* doRequest: the error for a response that was received
doRequest(resp) ==
    IF resp.kind = "transport" THEN PlainErr(FALSE)
    ELSE IF resp.status # 200
         THEN IF resp.json THEN APIError(resp.status) ELSE PlainErr(FALSE)
         ELSE IF resp.json THEN NoErr ELSE PlainErr(FALSE)

isRetryableError(err) ==
    IF err.kind # "api" THEN TRUE
    ELSE err.status = 429 \/ err.status >= 500

\* SendMessage after limiter.Wait: return on an error, go on without
afterWait_IgnoresError(waitFailed) == "attempt"

afterWait(waitFailed) == IF waitFailed THEN "done" ELSE "attempt"

\* The select of the backoff wait: ctx.Done() wins once the context is done,
\* the timer otherwise
backoffSelect_TimerOnly(ctxDone) == "timer"

backoffSelect(ctxDone) == IF ctxDone THEN "ctx" ELSE "timer"

Pow2(n) == IF n = 0 THEN 1 ELSE IF n = 1 THEN 2 ELSE 4

NoSend == [pc |-> "idle", attempt |-> 0, lastErr |-> NoErr, delay |-> 0,
           result |-> [kind |-> "none", status |-> 0, ctx |-> FALSE]]
\* hist.seen is the set of statuses answered so far when they were all the
\* same, and every status once two of them differed
\* hist.okBody: the last exchange gave a 200 with a well-formed body
NoHist == [sent |-> 0, acquired |-> 0, lastStatus |-> -1, seen |-> {},
           okBody |-> FALSE]

CtxDone(i) == ctx[i].err # "none"

\* The client after NewClient
ClientStart ==
    /\ tokens = Burst
    /\ waitq = <<>>
    /\ send = [i \in Sends |-> NoSend]
    /\ ctx = [i \in Sends |-> [err |-> "none", at |-> "none", sent |-> 0]]
    /\ hist = [i \in Sends |-> NoHist]

Returns(i, kind, st, c) ==
    [send[i] EXCEPT !.pc = "done",
                    !.result = [kind |-> kind, status |-> st, ctx |-> c]]

\* SendMessage calls limiter.Wait(ctx). Wait fails at once on a done context,
\* and when the context's deadline is sooner than the next token (tooSoon);
\* it takes a token if one is there; otherwise the call blocks.
Start(i, tooSoon) ==
    /\ send[i].pc = "idle"
    /\ IF CtxDone(i) \/ (tokens = 0 /\ tooSoon)
       THEN /\ send' = [send EXCEPT ![i] =
                 IF afterWait(TRUE) = "done"
                 THEN Returns(i, "ratelimiter", 0, CtxDone(i))
                 ELSE [send[i] EXCEPT !.pc = "attempt"]]
            /\ UNCHANGED <<tokens, waitq, hist>>
       ELSE IF tokens > 0 /\ waitq = <<>>
       THEN /\ tokens' = tokens - 1
            /\ hist' = [hist EXCEPT ![i].acquired = @ + 1]
            /\ send' = [send EXCEPT ![i].pc = afterWait(FALSE)]
            /\ UNCHANGED waitq
       ELSE /\ waitq' = Append(waitq, i)
            /\ send' = [send EXCEPT ![i].pc = "wait"]
            /\ UNCHANGED <<tokens, hist>>
    /\ UNCHANGED <<ctx>>
    /\ UNCHANGED <<cacheVars, statVars, orchVars, est, workVars>>

Granted_Last(q) == q[Len(q)]

\* The blocked call the next token goes to: limiter.Wait reserves tokens in
\* arrival order
Granted(q) == Head(q)

RemoveFromQueue(q, i) == SelectSeq(q, LAMBDA x : x # i)

\* One refill interval passes: the first blocked call gets the token, or the
\* bucket fills up to Burst
Refill ==
    /\ IF waitq # <<>>
       THEN LET i == Granted(waitq) IN
            /\ ~CtxDone(i)
            /\ waitq' = RemoveFromQueue(waitq, i)
            /\ hist' = [hist EXCEPT ![i].acquired = @ + 1]
            /\ send' = [send EXCEPT ![i].pc = afterWait(FALSE)]
            /\ UNCHANGED tokens
       ELSE /\ tokens < Burst
            /\ tokens' = tokens + 1
            /\ UNCHANGED <<waitq, send, hist>>
    /\ UNCHANGED <<ctx>>
    /\ UNCHANGED <<cacheVars, statVars, orchVars, est, workVars>>

\* limiter.Wait returns the context's error to a blocked call
WaitCancelled(i) ==
    /\ send[i].pc = "wait" /\ CtxDone(i)
    /\ waitq' = RemoveFromQueue(waitq, i)
    /\ send' = [send EXCEPT ![i] =
          IF afterWait(TRUE) = "done"
          THEN Returns(i, "ratelimiter", 0, TRUE)
          ELSE [send[i] EXCEPT !.pc = "attempt"]]
    /\ UNCHANGED <<tokens, ctx, hist>>
    /\ UNCHANGED <<cacheVars, statVars, orchVars, est, workVars>>

\* The caller cancels the context, or its deadline passes
Cancel(i) ==
    /\ ~CtxDone(i)
    /\ ctx' = [ctx EXCEPT ![i] = [err |-> "done", at |-> send[i].pc,
                                  sent |-> hist[i].sent]]
    /\ UNCHANGED <<tokens, waitq, send, hist>>
    /\ UNCHANGED <<cacheVars, statVars, orchVars, est, workVars>>

AfterError_NeverRetries(i, err) ==
    [Returns(i, err.kind, err.status, err.ctx) EXCEPT !.lastErr = err]

\* SendMessage after a failed attempt: return a terminal error, or back off
AfterError(i, err) ==
    IF ~isRetryableError(err)
    THEN [Returns(i, err.kind, err.status, err.ctx) EXCEPT !.lastErr = err]
    ELSE [send[i] EXCEPT !.pc = "backoff", !.lastErr = err,
                         !.delay = RetryDelay * Pow2(send[i].attempt)]

\* doRequest is called: httpClient.Do sends the request, unless the context
\* is already done, and then fails without sending
Attempt(i) ==
    /\ send[i].pc = "attempt"
    /\ IF CtxDone(i)
       THEN /\ send' = [send EXCEPT ![i] = AfterError(i, PlainErr(TRUE))]
            /\ UNCHANGED hist
       ELSE /\ send' = [send EXCEPT ![i].pc = "inflight"]
            /\ hist' = [hist EXCEPT ![i].sent = @ + 1]
    /\ UNCHANGED <<tokens, waitq, ctx>>
    /\ UNCHANGED <<cacheVars, statVars, orchVars, est, workVars>>

\* The exchange ends with a response (or a transport failure) and
\* SendMessage acts on it
Respond(i, resp) ==
    /\ send[i].pc = "inflight" /\ ~CtxDone(i)
    /\ hist' = [hist EXCEPT ![i].lastStatus = resp.status,
                            ![i].seen = IF @ \subseteq {resp.status}
                                        THEN {resp.status}
                                        ELSE Statuses \cup {0},
                            ![i].okBody = (doRequest(resp) = NoErr)]
    /\ LET err == doRequest(resp) IN
       send' = [send EXCEPT ![i] =
                  IF err = NoErr THEN Returns(i, "ok", 200, FALSE)
                  ELSE AfterError(i, err)]
    /\ UNCHANGED <<tokens, waitq, ctx>>
    /\ UNCHANGED <<cacheVars, statVars, orchVars, est, workVars>>

\* The context is done while the request is in flight: httpClient.Do fails
\* with the context's error
InflightCancelled(i) ==
    /\ send[i].pc = "inflight" /\ CtxDone(i)
    /\ send' = [send EXCEPT ![i] = AfterError(i, PlainErr(TRUE))]
    /\ UNCHANGED <<tokens, waitq, ctx, hist>>
    /\ UNCHANGED <<cacheVars, statVars, orchVars, est, workVars>>

\* The backoff wait ends: with ctx.Err() if the context is done, else the
\* loop goes on, and after the last attempt returns "max retries exceeded"
BackoffEnds(i) ==
    /\ send[i].pc = "backoff"
    /\ send' = [send EXCEPT ![i] =
          IF backoffSelect(CtxDone(i)) = "ctx"
          THEN Returns(i, "ctx", 0, TRUE)
          ELSE IF send[i].attempt + 1 < maxRetries
               THEN [send[i] EXCEPT !.pc = "attempt", !.attempt = @ + 1]
               ELSE [Returns(i, "maxretries", send[i].lastErr.status,
                             send[i].lastErr.ctx) EXCEPT !.attempt = @ + 1]]
    /\ UNCHANGED <<tokens, waitq, ctx, hist>>
    /\ UNCHANGED <<cacheVars, statVars, orchVars, est, workVars>>

NextClient ==
    \/ \E i \in Concurrent, tooSoon \in BOOLEAN : Start(i, tooSoon)
    \/ Refill
    \/ \E i \in Concurrent : WaitCancelled(i)
    \/ \E i \in Concurrent : Cancel(i)
    \/ \E i \in Concurrent : Attempt(i)
    \/ \E i \in Concurrent, resp \in Responses : Respond(i, resp)
    \/ \E i \in Concurrent : InflightCancelled(i)
    \/ \E i \in Concurrent : BackoffEnds(i)

\* A server that answers at once, with a 200 or a 500, both well-formed
LimiterAnswers == {r \in Responses : r.kind = "http" /\ r.json
                                     /\ r.status \in {200, 500}}

\* Three calls under a context that outlasts them, against the limiter
NextLimiter ==
    \/ \E i \in Sends : Start(i, FALSE)
    \/ Refill
    \/ \E i \in Sends : Attempt(i)
    \/ \E i \in Sends, resp \in LimiterAnswers : Respond(i, resp)
    \/ \E i \in Sends : BackoffEnds(i)

\* time passes, exchanges end and timers fire
FairLimiter ==
    /\ WF_vars(Refill)
    /\ \A i \in Sends : WF_vars(Attempt(i))
    /\ \A i \in Sends : WF_vars(\E resp \in LimiterAnswers : Respond(i, resp))
    /\ \A i \in Sends : WF_vars(BackoffEnds(i))

-----------------------------------------------------------------------------
\* Properties of the client

Terminal4xx == {st \in Statuses : st >= 400 /\ st < 500 /\ st # 429}

\* the context was not done before the call returned
NeverCancelled(i) == ctx[i].err = "none" \/ ctx[i].at = "done"

\* C5: a transport failure, a 429 or a 5xx is retryable (never returned as
\* the terminal error), and after any 4xx other than 429 SendMessage makes no
\* further attempt and returns that error at once, whatever the body is.
C5_ErrorClassification ==
    \A i \in Sends :
        LET st == hist[i].lastStatus IN
        /\ st \in Terminal4xx =>
             /\ send[i].pc = "done"
             /\ send[i].result.kind = "api" /\ send[i].result.status = st
        /\ ((st = 0 \/ st = 429 \/ st >= 500) /\ send[i].pc = "done") =>
             send[i].result.kind \in {"maxretries", "ctx"}

\* C6: with a context that is never cancelled, a server that always answers
\* 500 gets exactly maxRetries requests and the call fails with "max retries
\* exceeded" wrapping the last error; a server that answers 400 gets exactly
\* one request and the call fails with that error.
C6_RetryCounts ==
    \A i \in Sends :
        (send[i].pc = "done" /\ NeverCancelled(i)) =>
            /\ hist[i].seen = {500} =>
                 /\ hist[i].sent = maxRetries
                 /\ send[i].result.kind = "maxretries"
                 /\ send[i].result.status = send[i].lastErr.status
            /\ hist[i].seen = {400} =>
                 /\ hist[i].sent = 1
                 /\ send[i].result.kind = "api" /\ send[i].result.status = 400

\* C7: a call whose context is cancelled before it returns sends no request
\* after the cancellation and returns the context's error (from the limiter
\* or from the backoff wait), not an APIError and not "max retries exceeded".
C7_CancellationSurfaces ==
    \A i \in Sends :
        (send[i].pc = "done" /\ ~NeverCancelled(i)) =>
            /\ send[i].result.kind \in {"ratelimiter", "ctx"}
            /\ send[i].result.ctx
            /\ hist[i].sent = ctx[i].sent

\* one call cancelled in its second backoff wait, the other while its
\* request was in flight
C7_Witness ==
    /\ send["s1"].pc = "done" /\ ctx["s1"].at = "backoff" /\ hist["s1"].sent = 2
    /\ send["s1"].result.kind = "ctx"
    /\ send["s2"].pc = "done" /\ ctx["s2"].at = "inflight"
    /\ send["s2"].result.kind = "ctx"

\* C8: no request is sent without a token acquired first, and a call whose
\* context is done (or whose deadline is too soon) while it waits for a token
\* returns the limiter's error having sent nothing.
C8_NoRequestWithoutToken ==
    \A i \in Sends :
        /\ hist[i].sent > 0 => hist[i].acquired > 0
        /\ send[i].result.kind = "ratelimiter" => hist[i].sent = 0
        /\ (send[i].pc = "done" /\ ctx[i].at \in {"idle", "wait"}) =>
             /\ send[i].result.kind = "ratelimiter"
             /\ hist[i].sent = 0

\* a call cancelled while blocked in limiter.Wait has returned, while the
\* other call, which holds the token, has sent its request
C8_Witness ==
    /\ send["s2"].pc = "done" /\ ctx["s2"].at = "wait"
    /\ send["s2"].result.kind = "ratelimiter" /\ hist["s2"].sent = 0
    /\ hist["s1"].sent > 0

\* C36: every request a SendMessage call sends, each retry included, has a
\* limiter token of its own: a call has never sent more requests than it has
\* acquired tokens.
C36_OneTokenPerRequest ==
    \A i \in Sends : hist[i].sent <= hist[i].acquired

\* C40: a call is in a backoff wait only between two attempts: the wait
\* after failed attempt n lasts RetryDelay * 2^n and attempt n + 1 is still
\* permitted, so that the failure of the last permitted attempt leads to no
\* wait.
C40_BackoffOnlyBetweenAttempts ==
    \A i \in Sends :
        send[i].pc = "backoff" =>
            /\ send[i].delay = RetryDelay * Pow2(send[i].attempt)
            /\ send[i].attempt + 1 < maxRetries

\* C17: a call that gets a successful response after k retryable failures,
\* k < maxRetries, returns it with no error after exactly k + 1 requests; a
\* failure that is retryable is never what a call returns while it has
\* attempts left.
C17_TransientFailuresMasked ==
    \A i \in Sends :
        /\ hist[i].okBody =>
             /\ send[i].pc = "done" /\ send[i].result.kind = "ok"
             /\ hist[i].sent = send[i].attempt + 1
             /\ send[i].attempt < maxRetries
        /\ (send[i].pc = "done" /\ NeverCancelled(i) /\ hist[i].sent < maxRetries) =>
             \/ send[i].result.kind = "ok"
             \/ send[i].result.kind = "ratelimiter"
             \/ send[i].result.kind = "api" /\ send[i].result.status \in Terminal4xx

\* a call has returned the response of its last allowed attempt, after a
\* transport failure or a 5xx
C17_Witness ==
    /\ send["s1"].result.kind = "ok" /\ hist["s1"].okBody
    /\ hist["s1"].sent = maxRetries
    /\ send["s1"].lastErr # NoErr

Admitted == {i \in Sends : hist'[i].acquired > hist[i].acquired}

-----------------------------------------------------------------------------
\* CountTokens of claude.Client and of analyzer.ClaudeAnalyzer

\* Longest file content the prompt keeps whole (SDKAnalysisPrompt: 10000)
TruncateAt == 2

Roles == {"user", "assistant"}
Contents == {"", "x", "xyzw"}
FileNames == {"a.go", "bb.go"}

\* []Message arguments of Client.CountTokens
MessageLists ==
    {<<>>} \cup {<<m>> : m \in [Role : Roles, Content : Contents]}
           \cup {<<m, [Role |-> "user", Content |-> "xyzw"]>> :
                    m \in [Role : Roles, Content : Contents]}

\* AnalysisRequest arguments of ClaudeAnalyzer.CountTokens
Requests ==
    UNION {[SDKName : {"go", "py"}, Version : {"1", "abc1234"},
            Code : [fs -> Contents]] : fs \in SUBSET FileNames}

\* The orders in which a range over the map can visit its keys
Orders(fs) ==
    {o \in UNION {[1..n -> fs] : n \in {Cardinality(fs)}} :
        \A x, y \in DOMAIN o : x # y => o[x] # o[y]}

NoEst == [who |-> "none", input |-> <<>>, units |-> 0, err |-> "nil"]

EstimateStart == est = NoEst

\* SDKAnalysisPrompt: a file's content, cut at the limit
Truncated(content) ==
    IF Len(content) > TruncateAt
    THEN SubSeq(content, 1, TruncateAt) \o "[truncated]"
    ELSE content

codeSnippets_FirstOnly(code, o) ==
    [x \in (DOMAIN o) \cap {1} |-> "File: " \o o[x] \o "|" \o Truncated(code[o[x]])]

\* SDKAnalysisPrompt: one snippet per file, in the order o of the range
codeSnippets(code, o) ==
    [x \in DOMAIN o |-> "File: " \o o[x] \o "|" \o Truncated(code[o[x]])]

RECURSIVE Join(_, _)
\* strings.Join
Join(elems, sep) ==
    IF Len(elems) = 0 THEN ""
    ELSE IF Len(elems) = 1 THEN elems[1]
    ELSE elems[1] \o sep \o Join(Tail(elems), sep)

\* SDKAnalysisPrompt, its fixed texts shortened
SDKAnalysisPrompt(sdkName, version, code, o) ==
    "system" \o "||" \o "Analyze " \o sdkName \o " (" \o version \o "): "
             \o Join(codeSnippets(code, o), "||") \o " format"

RECURSIVE totalChars(_)
\* Client.CountTokens: the loop over the messages
totalChars(messages) ==
    IF messages = <<>> THEN 0
    ELSE Len(messages[1].Role) + Len(messages[1].Content) + 10
         + totalChars(Tail(messages))

\* Client.CountTokens
ClientCountTokens(messages) == totalChars(messages) \div 4

\* ClaudeAnalyzer.CountTokens, with the order o its range over request.Code took
AnalyzerCountTokens(request, o) ==
    ClientCountTokens(<< [Role |-> "user",
                          Content |-> SDKAnalysisPrompt(request.SDKName,
                                          request.Version, request.Code, o)] >>)

\* A call of Client.CountTokens
ClientCountTokensCall(messages) ==
    /\ est' = [who |-> "client", input |-> messages,
               units |-> ClientCountTokens(messages), err |-> "nil"]
    /\ UNCHANGED <<cacheVars, statVars, clientVars, orchVars, workVars>>

\* A call of ClaudeAnalyzer.CountTokens
AnalyzerCountTokensCall(request, o) ==
    /\ est' = [who |-> "analyzer", input |-> request,
               units |-> AnalyzerCountTokens(request, o), err |-> "nil"]
    /\ UNCHANGED <<cacheVars, statVars, clientVars, orchVars, workVars>>

\* CountTokens calls, next to a SendMessage call that takes the token and
\* sends its request
NextEstimate ==
    \/ \E messages \in MessageLists : ClientCountTokensCall(messages)
    \/ \E request \in Requests :
          \E o \in Orders(DOMAIN request.Code) : AnalyzerCountTokensCall(request, o)
    \/ Start("s1", FALSE)
    \/ Attempt("s1")

\* C19: a CountTokens call sends no request, takes no limiter token, leaves
\* the client and the cache as they are, returns no error, and its value
\* depends on the request only (not on the order the files are visited in).
C19_CountTokensIsPure ==
    [][est' # est =>
          /\ <<cacheVars, statVars, clientVars, orchVars>>'
               = <<cacheVars, statVars, clientVars, orchVars>>
          /\ est'.err = "nil"
          /\ est'.who = "client" => est'.units = ClientCountTokens(est'.input)
          /\ est'.who = "analyzer" =>
                \A o \in Orders(DOMAIN est'.input.Code) :
                    est'.units = AnalyzerCountTokens(est'.input, o)]_vars

\* the analyzer has estimated a request with two files of different
\* lengths, one of them cut, while the limiter's token is taken and one
\* request (of SendMessage) has been sent
C19_Witness ==
    /\ est.who = "analyzer"
    /\ DOMAIN est.input.Code = FileNames
    /\ est.input.Code["a.go"] = "x" /\ est.input.Code["bb.go"] = "xyzw"
    /\ est.units > 0
    /\ tokens = 0 /\ hist["s1"].sent = 1

-----------------------------------------------------------------------------
\* sdk.Analyzer and worker.UpdateWorker

\* SDKs per analyzeBatch call; AnalyzeAllSDKs uses 5, the model a batch size
\* that splits its three active SDKs into two batches
batchSize == 2

\* The catalog (sdks.yaml), cut down to four entries
Catalog == << [name |-> "go", active |-> TRUE],
              [name |-> "py", active |-> TRUE],
              [name |-> "old", active |-> FALSE],
              [name |-> "js", active |-> TRUE] >>

GetActiveSDKs_All(c) == c

\* ConfigList.GetActiveSDKs
GetActiveSDKs(c) == SelectSeq(c, LAMBDA x : x.active)

Projects == <<"gremlin-arrow-flight", "claude-code-gui">>

\* The configured Config.CacheTTL
CacheTTL == CHOOSE t \in TTLs : t > 0

\* AnalysisVersion of the results of the two analyzers
AnalysisVersion(a) ==
    CASE a = "claude" -> "1.0.0"
      [] a = "mock"   -> "mock-1.0.0"
      [] OTHER        -> "other"

Min(a, b) == IF a < b THEN a ELSE b

\* latestCommit.Hash[:7] of the SDK repositories at the time of a run
Revisions == {"abc1234", "def5678"}

\* TokensUsed of an analysis: 0 .. MaxTokens
MaxTokens == 1

TokenCounts == 0..MaxTokens

NoRun == [pc |-> "idle", i |-> 0, j |-> 0, requests |-> <<>>, k |-> 0,
          converted |-> {}, r |-> 0, p |-> 0,
          successCount |-> 0, errorCount |-> 0,
          ctxDone |-> FALSE, totalTokens |-> 0,
          s |-> 0, combined |-> 0, failed |-> {}, version |-> "",
          ctxAtCall |-> FALSE, ret |-> ""]
NoJob == [Status |-> "none", Results |-> {}, Errors |-> {},
          Analysis |-> [n \in {} |-> 0], TotalTokens |-> 0, CompletedAt |-> {}]

\* the nil *SDKAnalysis of an error result
NoAnalysis == [TokensUsed |-> 0, AnalysisVersion |-> ""]

\* The BatchAnalysisResult with which BatchAnalyze starts: the Claude
\* analyzer's is "processing", the mock analyzer's "completed" at once
NewBatchResult(a) ==
    [NoJob EXCEPT !.Status = IF a = "mock" THEN "completed" ELSE "processing"]

\* The SDKAnalysis a successful AnalyzeCode returns, as far as the run looks
\* at it: u is the token usage the API response reports
AnalyzeCode(a, u) ==
    [TokensUsed |-> IF a = "mock" THEN 0 ELSE u,
     AnalysisVersion |-> AnalysisVersion(a)]
NoTrouble == [prep |-> {}, analysis |-> {}, sets |-> {}, written |-> {}]

\* The worker after NewUpdateWorker: the analyzer is the Claude one iff an
\* API key is configured
\* Config.UpdateSchedule: the default, and the six-field expression of the
\* worker's own start/stop test
DefaultSchedule == "0 2 * * 0"

Schedules == {DefaultSchedule, "* * * * * *"}

\* The configurations config.Load can produce, as far as the worker reads them
Configs == [ClaudeAPIKey : {"", "sk-key"}, UpdateSchedule : Schedules]

NewUpdateWorker_AlwaysClaude(cfg) == "claude"

\* NewUpdateWorker: the analyzer it builds
NewUpdateWorker(cfg) == IF cfg.ClaudeAPIKey # "" THEN "claude" ELSE "mock"

RunInit ==
    /\ run = NoRun
    /\ job = NoJob
    /\ results = <<>>
    /\ trouble = NoTrouble

OrchStart ==
    /\ config \in Configs
    /\ analyzer = NewUpdateWorker(config)
    /\ RunInit

\* AnalyzeAllSDKs: activeSDKs[i:end], end the smaller of i + n and the length
BatchOf(a, i, n) == SubSeq(a, i + 1, Min(i + n, Len(a)))

\* analyzeBatch's slice of the active SDKs: activeSDKs[i:end]
Batch(i) == BatchOf(GetActiveSDKs(Catalog), i, batchSize)

\* updateCache calls AnalyzeAllSDKs, which enters its batch loop
RunStart(cancelled, head) ==
    /\ run.pc = "idle"
    /\ run' = [NoRun EXCEPT !.pc = IF Len(GetActiveSDKs(Catalog)) > 0
                                    THEN "prep" ELSE "process",
                            !.ctxDone = cancelled, !.ctxAtCall = cancelled,
                            !.version = head]
    /\ results' = <<>>
    /\ trouble' = NoTrouble
    /\ UNCHANGED <<config, analyzer, job>>
    /\ UNCHANGED <<cacheVars, statVars, clientVars, est, workVars>>

\* The caller cancels the context of the update run while it is going on
CtxCancel ==
    /\ run.pc \notin {"idle", "done"}
    /\ ~run.ctxDone
    /\ run' = [run EXCEPT !.ctxDone = TRUE]
    /\ UNCHANGED <<config, analyzer, job, results, trouble>>
    /\ UNCHANGED <<cacheVars, statVars, clientVars, est, workVars>>

\* analyzeBatch, first loop, one SDK: Clone, extractCodeFiles and
\* GetLatestCommit; on any failure the SDK is logged and skipped (continue)
Prep(outcome) ==
    /\ run.pc = "prep"
    /\ LET b   == Batch(run.i)
           sdk == b[run.j + 1]
           req == IF outcome = "ok" THEN Append(run.requests, sdk.name)
                                    ELSE run.requests
       IN /\ run' = IF run.j + 1 < Len(b)
                    THEN [run EXCEPT !.j = @ + 1, !.requests = req]
                    ELSE [run EXCEPT !.j = @ + 1, !.requests = req,
                                     !.pc = "analyze", !.k = 0,
                                     !.totalTokens = 0, !.combined = @ + 1]
          /\ trouble' = IF outcome = "ok" THEN trouble
                        ELSE [trouble EXCEPT !.prep = @ \cup {sdk.name}]
          /\ job' = IF run.j + 1 < Len(b) THEN job
                    ELSE NewBatchResult(analyzer)
    /\ UNCHANGED <<config, analyzer, results>>
    /\ UNCHANGED <<cacheVars, statVars, clientVars, est, workVars>>

recordOutcome_DropsError(j, n, ok) ==
    IF ok THEN [j EXCEPT !.Results = @ \cup {n}] ELSE j

\* BatchAnalyze: the outcome of one AnalyzeCode goes into result.Results or
\* result.Errors under the request's SDK name
recordOutcome(j, n, ok) ==
    IF ok THEN [j EXCEPT !.Results = @ \cup {n}]
          ELSE [j EXCEPT !.Errors = @ \cup {n}]

\* result.Results[req.SDKName] = analysis
withAnalysis(j, n, a) ==
    [j EXCEPT !.Analysis = [x \in (DOMAIN @) \cup {n} |-> IF x = n THEN a ELSE @[x]]]

\* BatchAnalyze, one request: AnalyzeCode; the mock analyzer never fails, and
\* the Claude analyzer fails whenever the context is done (limiter.Wait
\* returns the context's error); the Claude analyzer adds the analysis's
\* TokensUsed to its local totalTokens
AnalyzeOne(ok, u) ==
    /\ run.pc = "analyze" /\ run.k < Len(run.requests)
    /\ analyzer = "mock" => ok /\ u = 0
    /\ (analyzer = "claude" /\ run.ctxDone) => ~ok
    /\ ~ok => u = 0
    /\ LET n == run.requests[run.k + 1] IN
       /\ job' = IF ok THEN withAnalysis(recordOutcome(job, n, ok), n,
                                        AnalyzeCode(analyzer, u))
                       ELSE recordOutcome(job, n, ok)
       /\ trouble' = IF ok THEN trouble
                     ELSE [trouble EXCEPT !.analysis = @ \cup {n}]
    /\ run' = [run EXCEPT !.k = @ + 1,
                          !.totalTokens = IF ok /\ analyzer # "mock"
                                          THEN @ + u ELSE @]
    /\ UNCHANGED <<config, analyzer, results>>
    /\ UNCHANGED <<cacheVars, statVars, clientVars, est, workVars>>

pathAfter_AlwaysSingle(err) == "single"

\* analyzeBatch after BatchAnalyze: on an error the individual analysis of the
\* batch's SDKs, otherwise the conversion of the job's maps
pathAfter(err) == IF err THEN "single" ELSE "convert"

completeJob_LeavesTotal(j, a, total, t) ==
    [j EXCEPT !.Status = "completed", !.CompletedAt = {t}]

\* The end of BatchAnalyze: the Claude analyzer sets Status, TotalTokens and
\* CompletedAt, the mock analyzer only CompletedAt
completeJob(j, a, total, t) ==
    IF a = "mock"
    THEN [j EXCEPT !.CompletedAt = {t}]
    ELSE [j EXCEPT !.Status = "completed", !.TotalTokens = total,
                   !.CompletedAt = {t}]

\* BatchAnalyze returns the completed job with a nil error, so analyzeBatch
\* goes on to convert the job's maps
BatchDone ==
    /\ run.pc = "analyze" /\ run.k = Len(run.requests)
    /\ job' = completeJob(job, analyzer, run.totalTokens, now)
    /\ run' = [run EXCEPT !.pc = pathAfter(FALSE), !.converted = {}]
    /\ UNCHANGED <<config, analyzer, results, trouble>>
    /\ UNCHANGED <<cacheVars, statVars, clientVars, est, workVars>>

\* analyzeBatch, one entry of batchResult.Results (in map order), and after
\* them one entry of batchResult.Errors
ConvertOne(n) ==
    /\ run.pc = "convert"
    /\ n \notin run.converted
    /\ \/ n \in job.Results
       \/ n \in job.Errors /\ job.Results \subseteq run.converted
    /\ results' = Append(results, [name |-> n, err |-> n \in job.Errors,
                                   path |-> "batch", i |-> run.i,
                                   analysis |-> IF n \in job.Errors
                                                THEN NoAnalysis
                                                ELSE job.Analysis[n]])
    /\ run' = [run EXCEPT !.converted = @ \cup {n}]
    /\ UNCHANGED <<config, analyzer, job, trouble>>
    /\ UNCHANGED <<cacheVars, statVars, clientVars, est, workVars>>

\* analyzeBatch returns; AnalyzeAllSDKs takes the next batch or returns
afterBatch(r) ==
    IF r.i + batchSize < Len(GetActiveSDKs(Catalog))
    THEN [r EXCEPT !.pc = "prep", !.i = @ + batchSize, !.j = 0,
                   !.requests = <<>>, !.k = 0, !.converted = {},
                   !.s = 0, !.combined = 0]
    ELSE [r EXCEPT !.pc = "process", !.r = 0, !.requests = <<>>,
                   !.k = 0, !.converted = {}, !.s = 0, !.combined = 0]

BatchReturn ==
    /\ run.pc = "convert"
    /\ run.converted = job.Results \cup job.Errors
    /\ run' = afterBatch(run)
    /\ UNCHANGED <<config, analyzer, job, results, trouble>>
    /\ UNCHANGED <<cacheVars, statVars, clientVars, est, workVars>>

\* BatchAnalyze returns an error, which neither analyzer of this repository
\* does: an Analyzer implementation other than those two, handed to
\* sdk.NewAnalyzer.  analyzeBatch drops the (nil) job and takes the fallback.
BatchFail ==
    /\ run.pc = "analyze"
    /\ analyzer = "other"
    /\ job' = NoJob
    /\ run' = [run EXCEPT !.pc = pathAfter(TRUE), !.s = 0,
                          !.failed = @ \cup {run.i}]
    /\ UNCHANGED <<config, analyzer, results, trouble>>
    /\ UNCHANGED <<cacheVars, statVars, clientVars, est, workVars>>

\* analyzeBatch, fallback loop, one SDK of the batch: AnalyzeSDK (Clone,
\* extractCodeFiles, GetLatestCommit, AnalyzeCode) and the AnalysisResult
\* appended for it, with the error if any step failed
Single(outcome, u) ==
    /\ run.pc = "single"
    /\ outcome # "ok" => u = 0
    /\ LET b   == Batch(run.i)
           sdk == b[run.s + 1]
       IN /\ results' = Append(results, [name |-> sdk.name, err |-> outcome # "ok",
                                         path |-> "single", i |-> run.i,
                                         analysis |-> IF outcome = "ok"
                                                      THEN AnalyzeCode(analyzer, u)
                                                      ELSE NoAnalysis])
          /\ trouble' = CASE outcome = "ok" -> trouble
                           [] outcome = "analyze" ->
                                [trouble EXCEPT !.analysis = @ \cup {sdk.name}]
                           [] OTHER -> [trouble EXCEPT !.prep = @ \cup {sdk.name}]
          /\ run' = IF run.s + 1 < Len(b) THEN [run EXCEPT !.s = @ + 1]
                    ELSE afterBatch(run)
    /\ UNCHANGED <<config, analyzer, job>>
    /\ UNCHANGED <<cacheVars, statVars, clientVars, est, workVars>>

\* Manager.Set as updateCache calls it: the write transaction and recordSet,
\* or an error from the storage engine (ok = FALSE) that leaves both alone
CacheSetDb(k, v, ttl, ok) == IF ok THEN TxSet(db, k, NewEntry(v, ttl, now)) ELSE db

CacheSetStats(v, ok) == IF ok THEN recordSet(stats, Len(v)) ELSE stats

Noted(k, ok) ==
    IF ok THEN [trouble EXCEPT !.written = @ \cup {k}]
          ELSE [trouble EXCEPT !.sets = @ \cup {k}]

\* json.Marshal(result.Analysis), as far as the cache can tell results apart
analysisJSON(n) == "{" \o n \o "," \o AnalysisVersion(analyzer) \o "}"

\* the keys updateCache writes for an SDK
sdkKey(n) == "sdk:" \o n

versionKey(n) == "sdk:" \o n \o ":" \o AnalysisVersion(analyzer)

timestampKey(n) == "sdk:" \o n \o ":last_analyzed"

\* time.Now().Format(time.RFC3339)
FormatTime(t) == "T" \o ToString(t)

\* updateCache, "Process results" loop: the next result; an error result is
\* counted and skipped
ProcessResult ==
    /\ run.pc = "process" /\ run.r < Len(results)
    /\ run' = IF results[run.r + 1].err
              THEN [run EXCEPT !.errorCount = @ + 1, !.r = @ + 1]
              ELSE [run EXCEPT !.pc = "setKey"]
    /\ UNCHANGED <<config, analyzer, job, results, trouble>>
    /\ UNCHANGED <<cacheVars, statVars, clientVars, est, workVars>>

\* updateCache: cache.Set(key, analysisJSON, CacheTTL)
SetKey(ok) ==
    /\ run.pc = "setKey"
    /\ LET n == results[run.r + 1].name IN
       /\ db' = CacheSetDb(sdkKey(n), analysisJSON(n), CacheTTL, ok)
       /\ stats' = CacheSetStats(analysisJSON(n), ok)
       /\ trouble' = Noted(sdkKey(n), ok)
    /\ run' = IF ok THEN [run EXCEPT !.pc = "setVersion", !.successCount = @ + 1]
                    ELSE [run EXCEPT !.pc = "setVersion", !.errorCount = @ + 1]
    /\ UNCHANGED <<closed, now, pc, loc, pending, ops, lastSet, obs, calls>>
    /\ UNCHANGED <<config, analyzer, job, results>>
    /\ UNCHANGED <<statVars, clientVars, est, workVars>>

\* updateCache: cache.Set(versionKey, analysisJSON, CacheTTL)
SetVersion(ok) ==
    /\ run.pc = "setVersion"
    /\ LET n == results[run.r + 1].name IN
       /\ db' = CacheSetDb(versionKey(n), analysisJSON(n), CacheTTL, ok)
       /\ stats' = CacheSetStats(analysisJSON(n), ok)
       /\ trouble' = Noted(versionKey(n), ok)
    /\ run' = [run EXCEPT !.pc = "setStamp"]
    /\ UNCHANGED <<closed, now, pc, loc, pending, ops, lastSet, obs, calls>>
    /\ UNCHANGED <<config, analyzer, job, results>>
    /\ UNCHANGED <<statVars, clientVars, est, workVars>>

\* updateCache: cache.Set(timestampKey, now, 0)
SetStamp(ok) ==
    /\ run.pc = "setStamp"
    /\ LET n == results[run.r + 1].name IN
       /\ db' = CacheSetDb(timestampKey(n), FormatTime(now), 0, ok)
       /\ stats' = CacheSetStats(FormatTime(now), ok)
       /\ trouble' = Noted(timestampKey(n), ok)
    /\ run' = [run EXCEPT !.pc = "process", !.r = @ + 1]
    /\ UNCHANGED <<closed, now, pc, loc, pending, ops, lastSet, obs, calls>>
    /\ UNCHANGED <<config, analyzer, job, results>>
    /\ UNCHANGED <<statVars, clientVars, est, workVars>>

\* updateCache: all results processed, on to the project summaries
ResultsDone ==
    /\ run.pc = "process" /\ run.r = Len(results)
    /\ run' = [run EXCEPT !.pc = "projects", !.p = 0]
    /\ UNCHANGED <<config, analyzer, job, results, trouble>>
    /\ UNCHANGED <<cacheVars, statVars, clientVars, est, workVars>>

\* updateCache: cache.Set("project:<name>", summaryJSON, CacheTTL) for the
\* next project; after the last one updateCache returns nil
SetProject(ok) ==
    /\ run.pc = "projects"
    /\ LET k == "project:" \o Projects[run.p + 1]
           v == "{" \o Projects[run.p + 1] \o "," \o FormatTime(now) \o "}"
       IN /\ db' = CacheSetDb(k, v, CacheTTL, ok)
          /\ stats' = CacheSetStats(v, ok)
          /\ trouble' = Noted(k, ok)
    /\ run' = IF run.p + 1 < Len(Projects)
              THEN [run EXCEPT !.p = @ + 1]
              ELSE [run EXCEPT !.p = @ + 1, !.pc = "done", !.ret = "nil"]
    /\ UNCHANGED <<closed, now, pc, loc, pending, ops, lastSet, obs, calls>>
    /\ UNCHANGED <<config, analyzer, job, results>>
    /\ UNCHANGED <<statVars, clientVars, est, workVars>>

PrepOutcomes == {"ok", "clone", "extract", "commit"}

\* AnalyzeAllSDKs, as updateCache calls it
NextAnalyze ==
    \/ \E c \in BOOLEAN, head \in Revisions : RunStart(c, head)
    \/ CtxCancel
    \/ \E o \in PrepOutcomes : Prep(o)
    \/ \E ok \in BOOLEAN, u \in TokenCounts : AnalyzeOne(ok, u)
    \/ BatchDone
    \/ \E n \in {e.name : e \in {Catalog[x] : x \in DOMAIN Catalog}} : ConvertOne(n)
    \/ BatchReturn

\* updateCache
NextOrch ==
    \/ NextAnalyze
    \/ ProcessResult
    \/ \E ok \in BOOLEAN : SetKey(ok)
    \/ \E ok \in BOOLEAN : SetVersion(ok)
    \/ \E ok \in BOOLEAN : SetStamp(ok)
    \/ ResultsDone
    \/ \E ok \in BOOLEAN : SetProject(ok)

\* analyzeBatch with an Analyzer whose BatchAnalyze can fail
NextFallback ==
    \/ NextAnalyze
    \/ BatchFail
    \/ \E o \in PrepOutcomes \cup {"analyze"}, u \in TokenCounts : Single(o, u)

-----------------------------------------------------------------------------
\* Analyzer.AnalyzeAllSDKs: the batch loop, over every catalog

\* entries of the longest catalog the loop is run over
MaxCatalog == 11

\* batchSize of AnalyzeAllSDKs, as the code has it
allSDKsBatchSize == 5

\* ConfigList values: an entry is named by its position in sdks.yaml
Catalogs ==
    UNION {[1..n -> BOOLEAN] : n \in 0..MaxCatalog}

ConfigList(flags) == [p \in DOMAIN flags |-> [name |-> p, active |-> flags[p]]]

NoSplit == [pc |-> "idle", catalog |-> <<>>, active |-> <<>>, i |-> 0,
            batches |-> <<>>]

SplitStart == split = NoSplit

\* AnalyzeAllSDKs: activeSDKs := a.configs.GetActiveSDKs()
AllSDKsStart ==
    /\ split.pc = "idle"
    /\ split' = [split EXCEPT !.pc = "loop",
                              !.active = GetActiveSDKs(split.catalog)]
    /\ UNCHANGED <<cacheVars, statVars, clientVars, orchVars, est, sched, need>>

\* AnalyzeAllSDKs: one turn of the loop, batch := activeSDKs[i:end] goes to
\* analyzeBatch and i += batchSize
AllSDKsBatch ==
    /\ split.pc = "loop"
    /\ split.i < Len(split.active)
    /\ split' = [split EXCEPT
                   !.batches = Append(@, BatchOf(split.active, split.i,
                                                 allSDKsBatchSize)),
                   !.i = @ + allSDKsBatchSize]
    /\ UNCHANGED <<cacheVars, statVars, clientVars, orchVars, est, sched, need>>

\* AnalyzeAllSDKs: the loop condition fails and the results are returned
AllSDKsReturn ==
    /\ split.pc = "loop"
    /\ split.i >= Len(split.active)
    /\ split' = [split EXCEPT !.pc = "done"]
    /\ UNCHANGED <<cacheVars, statVars, clientVars, orchVars, est, sched, need>>

NextSplit == AllSDKsStart \/ AllSDKsBatch \/ AllSDKsReturn

\* the places of the batches handed out so far: <<batch, position in it>>
Slots ==
    {s \in (DOMAIN split.batches) \X (1..MaxCatalog) :
        s[2] <= Len(split.batches[s[1]])}

SlotEntry(s) == split.batches[s[1]][s[2]]

SlotBefore(s, t) == s[1] < t[1] \/ (s[1] = t[1] /\ s[2] < t[2])

\* C31: AnalyzeAllSDKs hands the active entries of the catalog, in catalog
\* order, to analyzeBatch in consecutive batches of at most 5: only the last
\* batch may hold fewer than 5, every entry of a batch is active, the
\* entries of the batches follow the catalog's order, and when the loop has
\* ended every active entry is in exactly one batch and no inactive entry
\* is in any.
C31_BatchesPartitionActive ==
    /\ \A b \in DOMAIN split.batches :
          /\ Len(split.batches[b]) \in 1..5
          /\ b < Len(split.batches) => Len(split.batches[b]) = 5
          /\ split.pc = "loop" /\ split.i < Len(split.active)
                => Len(split.batches[b]) = 5
    /\ \A s \in Slots :
          /\ SlotEntry(s).active
          /\ SlotEntry(s) \in {split.catalog[p] : p \in DOMAIN split.catalog}
    /\ \A s, t \in Slots : SlotBefore(s, t) => SlotEntry(s).name < SlotEntry(t).name
    /\ split.pc = "done" =>
          \A p \in DOMAIN split.catalog :
              Cardinality({s \in Slots : SlotEntry(s) = split.catalog[p]})
                  = IF split.catalog[p].active THEN 1 ELSE 0

\* a catalog with inactive entries among eleven, split into a full batch and
\* a shorter last one
C31_Witness ==
    /\ split.pc = "done"
    /\ Len(split.catalog) = MaxCatalog
    /\ \E p \in DOMAIN split.catalog : ~split.catalog[p].active
    /\ Len(split.batches) = 2
    /\ Len(split.batches[1]) = 5
    /\ Len(split.batches[2]) \in 1..4

-----------------------------------------------------------------------------
\* UpdateWorker.Start

\* times the cron scheduler fires during a run of the model
MaxFires == 5

\* strings.Fields(spec), counted: the schedule expressions of the model
\* separate their fields by single spaces
RECURSIVE Spaces(_)
Spaces(str) ==
    IF Len(str) = 0 THEN 0
    ELSE (IF SubSeq(str, 1, 1) = " " THEN 1 ELSE 0) + Spaces(SubSeq(str, 2, Len(str)))

CronFields(str) == IF Len(str) = 0 THEN 0 ELSE Spaces(str) + 1

\* cron.AddFunc on the scheduler cron.New builds: its standard parser takes
\* an expression of exactly five fields (minute, hour, day of month, month,
\* day of week) and answers an error for any other number
AddFuncOk(schedule) == CronFields(schedule) = 5

NoSched == [pc |-> "idle", ctxDone |-> FALSE, entries |-> 0, cronOn |-> FALSE,
            initial |-> 0, fired |-> 0, inflight |-> [initial |-> 0, cron |-> 0],
            writers |-> [initial |-> 0, cron |-> 0]]

SchedStart == sched = NoSched

\* Start: AddFunc registers the job, or fails, and then Start logs and returns
StartAddFunc ==
    /\ sched.pc = "idle"
    /\ sched' = IF AddFuncOk(config.UpdateSchedule)
                THEN [sched EXCEPT !.pc = "added", !.entries = @ + 1]
                ELSE [sched EXCEPT !.pc = "returned"]
    /\ UNCHANGED <<cacheVars, statVars, clientVars, orchVars, est, need, split>>

\* Start: go func() { w.updateCache(ctx) }()
StartInitial ==
    /\ sched.pc = "added"
    /\ sched' = [sched EXCEPT !.pc = "launched", !.initial = @ + 1,
                              !.inflight.initial = @ + 1]
    /\ UNCHANGED <<cacheVars, statVars, clientVars, orchVars, est, need, split>>

\* Start: w.cron.Start(), and on to <-ctx.Done()
StartCron ==
    /\ sched.pc = "launched"
    /\ sched' = [sched EXCEPT !.pc = "waiting", !.cronOn = TRUE]
    /\ UNCHANGED <<cacheVars, statVars, clientVars, orchVars, est, need, split>>

\* the caller cancels the context it gave to Start
SchedCancel ==
    /\ ~sched.ctxDone
    /\ sched' = [sched EXCEPT !.ctxDone = TRUE]
    /\ UNCHANGED <<cacheVars, statVars, clientVars, orchVars, est, need, split>>

\* Start: the context is done; w.cron.Stop()
StartStop ==
    /\ sched.pc = "waiting" /\ sched.ctxDone
    /\ sched' = [sched EXCEPT !.pc = "stopping", !.cronOn = FALSE]
    /\ UNCHANGED <<cacheVars, statVars, clientVars, orchVars, est, need, split>>

\* Start: <-cronCtx.Done(), which cron closes once the jobs it started have
\* returned; Start returns
StartReturn ==
    /\ sched.pc = "stopping"
    /\ sched.inflight.cron = 0
    /\ sched' = [sched EXCEPT !.pc = "returned"]
    /\ UNCHANGED <<cacheVars, statVars, clientVars, orchVars, est, need, split>>

\* the scheduler of a guarded worker: a run is started only when none is
\* going on
CronFire_SkipsWhileRunning ==
    /\ sched.cronOn /\ sched.entries > 0
    /\ sched.fired < MaxFires
    /\ sched.inflight.initial + sched.inflight.cron = 0
    /\ sched' = [sched EXCEPT !.fired = @ + 1, !.inflight.cron = @ + 1]
    /\ UNCHANGED <<cacheVars, statVars, clientVars, orchVars, est, need, split>>

\* the running scheduler reaches a time of the schedule and starts the job in
\* a goroutine of its own
CronFire ==
    /\ sched.cronOn /\ sched.entries > 0
    /\ sched.fired < MaxFires
    /\ sched' = [sched EXCEPT !.fired = @ + 1, !.inflight.cron = @ + 1]
    /\ UNCHANGED <<cacheVars, statVars, clientVars, orchVars, est, need, split>>

\* updateCache of a run in flight that has not yet done so stores the result
\* of the first active SDK under its stable key: w.cache.Set(key, ...)
RunWrite(kind) ==
    /\ sched.writers[kind] < sched.inflight[kind]
    /\ LET n == GetActiveSDKs(Catalog)[1].name
           v == analysisJSON(n)
       IN /\ db' = CacheSetDb(sdkKey(n), v, CacheTTL, TxBegins(closed))
          /\ stats' = CacheSetStats(v, TxBegins(closed))
    /\ sched' = [sched EXCEPT !.writers[kind] = @ + 1]
    /\ UNCHANGED <<closed, now, pc, loc, pending, ops, lastSet, obs, calls>>
    /\ UNCHANGED <<statVars, clientVars, orchVars, est, need, split>>

\* an update run started by Start ("initial") or by the scheduler ("cron")
\* returns, having written the key (wrote) or not
RunEnds(kind, wrote) ==
    /\ IF wrote THEN sched.writers[kind] > 0
                ELSE sched.writers[kind] < sched.inflight[kind]
    /\ sched' = [sched EXCEPT !.inflight[kind] = @ - 1,
                              !.writers[kind] = IF wrote THEN @ - 1 ELSE @]
    /\ UNCHANGED <<cacheVars, statVars, clientVars, orchVars, est, need, split>>

NextSched ==
    \/ StartAddFunc
    \/ StartInitial
    \/ StartCron
    \/ SchedCancel
    \/ StartStop
    \/ StartReturn
    \/ CronFire
    \/ \E kind \in {"initial", "cron"} : RunWrite(kind)
    \/ \E kind \in {"initial", "cron"}, wrote \in BOOLEAN : RunEnds(kind, wrote)

-----------------------------------------------------------------------------
\* Analyzer.NeedsUpdate

\* the SDK asked about, and the key of its timestamp
NeedSdk == GetActiveSDKs(Catalog)[1].name

\* the repository of the SDK: whether the local copy exists (os.Stat), the
\* times of the commits the local copy has, and of those of the remote
NoRepo == [exists |-> FALSE, local |-> {}, remote |-> {}]

NoAnswer == [called |-> FALSE, needs |-> FALSE, err |-> FALSE]

NoNeed == [repo |-> NoRepo, listed |-> TRUE, out |-> NoAnswer]

NeedStart == need = NoNeed

\* time.Parse(time.RFC3339, s): the strings time.Format produces parse, to
\* the time they were made from; nothing else does
Parses(s) == \E t \in 0..MaxTime : s = FormatTime(t)

ParseTime(s) == CHOOSE t \in 0..MaxTime : s = FormatTime(t)

\* git.Pull: a successful pull brings the remote's commits into the local copy
Pull(repo, ok) == IF ok THEN [repo EXCEPT !.local = @ \cup repo.remote] ELSE repo

GetCommitsSince_All(commits, since) == commits

\* git.GetCommitsSince: the commits of the log that are not before `since`
GetCommitsSince(commits, since) == {c \in commits : ~(c < since)}

\* Analyzer.NeedsUpdate, given the outcome of cache.Get on the timestamp key
\* ("value", "notfound" or "error"), the value read, the repository after the
\* pull, and whether listing the commits works
NeedsUpdate(got, val, repo, listOk) ==
    IF got # "value" THEN [called |-> TRUE, needs |-> TRUE, err |-> FALSE]
    ELSE IF ~Parses(val) THEN [called |-> TRUE, needs |-> TRUE, err |-> FALSE]
    ELSE IF ~repo.exists THEN [called |-> TRUE, needs |-> TRUE, err |-> FALSE]
    ELSE IF ~listOk THEN [called |-> TRUE, needs |-> FALSE, err |-> TRUE]
    ELSE [called |-> TRUE, err |-> FALSE,
          needs |-> GetCommitsSince(repo.local, ParseTime(val)) # {}]

\* Manager.Get as NeedsUpdate calls it
CacheGet(k) == IF ~TxBegins(closed) THEN "error" ELSE GetOutcome(db, k, now)

\* One NeedsUpdate call: the Get (which counts a hit or a miss and, on a hit,
\* starts the hit-count goroutine), the pull if the local copy exists, the
\* listing, the answer
NeedsUpdateCall(pullOk, listOk) ==
    LET k    == timestampKey(NeedSdk)
        got  == CacheGet(k)
        val  == IF got = "value" THEN db[k].value ELSE ""
        pull == got = "value" /\ Parses(val) /\ need.repo.exists
        repo == IF pull THEN Pull(need.repo, pullOk) ELSE need.repo
    IN  /\ ops < MaxOps
        /\ ops' = ops + 1
        /\ pullOk \/ pull
        /\ listOk \/ pull
        /\ need' = [repo |-> repo, listed |-> listOk,
                    out |-> NeedsUpdate(got, val, repo, listOk)]
        /\ stats' = CASE got = "value" -> recordHit(stats)
                      [] got = "notfound" -> recordMiss(stats)
                      [] OTHER -> stats
        /\ pending' = IF got = "value"
                      THEN [x \in (DOMAIN pending) \cup {k} |->
                              IF x = k THEN (IF k \in DOMAIN pending
                                             THEN pending[k] + 1 ELSE 1)
                              ELSE pending[x]]
                      ELSE pending
        /\ obs' = [op |-> "Get", key |-> k, res |-> got, val |-> val]
        /\ UNCHANGED <<db, closed, now, pc, loc, lastSet, calls>>
        /\ UNCHANGED <<statVars, clientVars, orchVars, est, sched, split>>

\* the goroutine of that Get
NeedBump ==
    /\ timestampKey(NeedSdk) \in DOMAIN pending
    /\ Bump(timestampKey(NeedSdk))

\* Somebody writes the SDK's timestamp key: updateCache the formatted time
\* with ttl 0, any other client of the cache anything
StampWrite(v, ttl) ==
    /\ ops < MaxOps
    /\ ops' = ops + 1
    /\ db' = CacheSetDb(timestampKey(NeedSdk), v, ttl, TxBegins(closed))
    /\ stats' = CacheSetStats(v, TxBegins(closed))
    /\ obs' = NoObs
    /\ UNCHANGED <<closed, now, pc, loc, pending, lastSet, calls>>
    /\ UNCHANGED <<statVars, clientVars, orchVars, est, workVars>>

\* the local copy is cloned, with the remote's commits
RepoClone ==
    /\ ~need.repo.exists
    /\ need' = [need EXCEPT !.repo.exists = TRUE, !.repo.local = need.repo.remote]
    /\ UNCHANGED <<cacheVars, statVars, clientVars, orchVars, est, sched, split>>

\* the upstream repository gets a commit
RemoteCommit ==
    /\ now \notin need.repo.remote
    /\ need' = [need EXCEPT !.repo.remote = @ \cup {now}]
    /\ UNCHANGED <<cacheVars, statVars, clientVars, orchVars, est, sched, split>>

NextNeeds ==
    \/ \E p, l \in BOOLEAN : NeedsUpdateCall(p, l)
    \/ NeedBump
    \/ \E v \in {FormatTime(now)} \cup Values, ttl \in TTLs : StampWrite(v, ttl)
    \/ RepoClone
    \/ RemoteCommit
    \/ Tick
    \/ Close

-----------------------------------------------------------------------------
\* Properties of the update run

ActiveNames == {GetActiveSDKs(Catalog)[x].name : x \in DOMAIN GetActiveSDKs(Catalog)}

ErrorEntries == {x \in DOMAIN results : results[x].err}

\* C4: in a run in which exactly one target fails source extraction and
\* nothing else fails, the other targets' results are written to the cache,
\* and the result list has one entry per target, exactly one of them an error
\* entry, for the failed target.
C4_OneExtractionFailure ==
    (/\ run.pc = "done"
     /\ Cardinality(trouble.prep) = 1
     /\ trouble.analysis = {} /\ trouble.sets = {})
    => /\ \A n \in ActiveNames \ trouble.prep : sdkKey(n) \in trouble.written
       /\ Len(results) = Cardinality(ActiveNames)
       /\ Cardinality(ErrorEntries) = 1
       /\ \A x \in ErrorEntries : results[x].name \in trouble.prep

\* the names of the requests BatchAnalyze has gone through
Analysed == {run.requests[x] : x \in 1..run.k}

\* C20: BatchAnalyze goes through every request whatever failed before it,
\* and on return every request's name is a key of exactly one of Results and
\* Errors.
C20_BatchIsolatesFailures ==
    run.pc \in {"analyze", "convert"} =>
        /\ job.Results \cup job.Errors = Analysed
        /\ job.Results \cap job.Errors = {}
        /\ run.pc = "convert" =>
              /\ run.k = Len(run.requests)
              /\ job.Status = "completed"

\* BatchAnalyze has returned: its first request failed and its second
\* succeeded
C20_Witness ==
    /\ run.pc = "convert" /\ Len(run.requests) = batchSize
    /\ run.requests[1] \in job.Errors
    /\ run.requests[batchSize] \in job.Results

\* the revision-qualified key of target n at revision rev
revisionKey(n, rev) == "sdk:" \o n \o ":" \o rev

\* the results updateCache has processed
Processed == {results[x].name : x \in {y \in 1..run.r : ~results[y].err}}

\* C23: once the run has processed a successfully analysed target, without an
\* error from the cache, the cache holds the serialized result under
\* sdk:<id> and under sdk:<id>:<revision>, <revision> being the revision of
\* the source that was analysed, and the time under sdk:<id>:last_analyzed
\* with ttl = 0.
C23_KeysOfAnAnalysedTarget ==
    \A n \in Processed :
        trouble.sets = {} =>
            /\ sdkKey(n) \in DOMAIN db
            /\ db[sdkKey(n)].value = analysisJSON(n)
            /\ revisionKey(n, run.version) \in DOMAIN db
            /\ db[revisionKey(n, run.version)].value = analysisJSON(n)
            /\ timestampKey(n) \in DOMAIN db
            /\ db[timestampKey(n)].ttl = 0

\* the analyses the run holds: those of the job and those of the results
Analyses ==
    {job.Analysis[n] : n \in DOMAIN job.Analysis}
        \cup {results[x].analysis : x \in {y \in DOMAIN results : ~results[y].err}}

\* C24: the worker's analyzer is the Claude one iff the configuration has an
\* API key, and neither changes after construction; every analysis the mock
\* analyzer produces has AnalysisVersion "mock-1.0.0" and TokensUsed 0, and no
\* analysis of the Claude analyzer has that version.
C24_AnalyzerChosenOnce ==
    /\ [](analyzer = IF config.ClaudeAPIKey # "" THEN "claude" ELSE "mock")
    /\ [][analyzer' = analyzer /\ config' = config]_vars
    /\ [](\A a \in Analyses :
            /\ analyzer = "mock" =>
                  a.AnalysisVersion = "mock-1.0.0" /\ a.TokensUsed = 0
            /\ analyzer = "claude" => a.AnalysisVersion # "mock-1.0.0")

\* a worker built without an API key has analysed two SDKs with the mock
\* analyzer and turned the job into results
C24_Witness ==
    /\ config.ClaudeAPIKey = "" /\ analyzer = "mock"
    /\ run.pc = "process"
    /\ Cardinality({x \in DOMAIN results : ~results[x].err}) >= batchSize

\* what the claim calls the four reasons for an update, in a state
NoStamp == CacheGet(timestampKey(NeedSdk)) # "value"

BadStamp == ~NoStamp /\ ~Parses(db[timestampKey(NeedSdk)].value)

NoCopy == ~NoStamp /\ ~BadStamp /\ ~need.repo.exists

\* C26: NeedsUpdate answers (true, nil) exactly when the timestamp cannot be
\* read from the cache, or does not parse, or the local copy is missing, or
\* the listing reports commits since the timestamp; it answers (false, nil)
\* only with a valid timestamp, a local copy and no commits since; and when
\* the listing fails it answers (false, error).
C26_NeedsUpdate ==
    [][\A p, l \in BOOLEAN : NeedsUpdateCall(p, l) =>
        LET since == need'.repo.local \cap
                       {c \in 0..MaxTime :
                          ~(c < ParseTime(db[timestampKey(NeedSdk)].value))}
            lists == ~NoStamp /\ ~BadStamp /\ ~NoCopy
        IN /\ need'.out.called
           /\ (need'.out.needs /\ ~need'.out.err)
                 <=> (NoStamp \/ BadStamp \/ NoCopy \/ (lists /\ l /\ since # {}))
           /\ (~need'.out.needs /\ ~need'.out.err)
                 <=> (lists /\ l /\ since = {})
           /\ (lists /\ ~l) <=> (~need'.out.needs /\ need'.out.err)
           /\ ~(need'.out.needs /\ need'.out.err)]_vars

\* NeedsUpdate has just answered (true, nil) for a readable, valid timestamp
\* and an existing local copy: the pull brought a commit made after the
\* timestamp
C26_Witness ==
    /\ need.out.called /\ need.out.needs /\ ~need.out.err
    /\ obs.op = "Get" /\ obs.res = "value" /\ Parses(obs.val)
    /\ need.repo.exists
    /\ \E c \in need.repo.local : c > ParseTime(obs.val)

\* C33: a NeedsUpdate call leaves the stored entries and the statistics
\* counters as they were, and so does the goroutine its Get started.
C33_NeedsUpdateChangesNothing ==
    /\ [][\A p, l \in BOOLEAN : NeedsUpdateCall(p, l) =>
            db' = db /\ stats' = stats]_vars
    /\ [][NeedBump => db' = db /\ stats' = stats]_vars

\* C27: Start does not return before its context is cancelled, and when it
\* returns the periodic trigger is stopped and no run the trigger started is
\* still going on.
C27_StartBlocksUntilCancelled ==
    sched.pc = "returned" =>
        /\ sched.ctxDone
        /\ ~sched.cronOn
        /\ sched.inflight.cron = 0

\* C28: whatever the configured schedule expression, a Start call that has
\* got past its start-up, or has returned, has launched exactly one immediate
\* update run, which is not one of those the scheduler fired.
C28_OneImmediateRun ==
    sched.pc \in {"launched", "waiting", "stopping", "returned"} =>
        sched.initial = 1

\* C32: the scheduler has no overlap guard: whenever the running scheduler
\* has the job and may still fire, it can start an update run, whatever runs
\* are going on, and a run in flight that has not yet written the stable key
\* can write it, whatever the other runs have done.
C32_NoOverlapGuard ==
    /\ (sched.cronOn /\ sched.entries > 0 /\ sched.fired < MaxFires)
           => ENABLED CronFire
    /\ \A kind \in {"initial", "cron"} :
           sched.writers[kind] < sched.inflight[kind] => ENABLED RunWrite(kind)

\* the initial run and a run the scheduler fired are both going on, and
\* both have written the stable key of the same SDK
C32_Witness ==
    /\ sched.inflight.initial = 1 /\ sched.writers.initial = 1
    /\ sched.inflight.cron >= 1 /\ sched.writers.cron >= 1
    /\ sdkKey(GetActiveSDKs(Catalog)[1].name) \in DOMAIN db
    /\ stats.Sets >= 2

\* C37: when Start has returned after the cancellation of its context, no
\* update run it started, the initial one or one the scheduler fired, is
\* still going on.
C37_QuiescentAfterReturn ==
    (sched.pc = "returned" /\ sched.ctxDone) =>
        sched.inflight.initial = 0 /\ sched.inflight.cron = 0

\* C38: in an update run the last_analyzed timestamp of an SDK is written
\* only if the run has stored that SDK's result under its stable key.
C38_StampOnlyAfterStoredResult ==
    \A n \in ActiveNames :
        timestampKey(n) \in trouble.written => sdkKey(n) \in trouble.written

\* C29: an update run called with a context that is already cancelled
\* returns the error "update cancelled".
C29_CancelledRunReturnsError ==
    (run.pc = "done" /\ run.ctxAtCall) => run.ret = "update cancelled"

\* C25: when the worker has the Claude analyzer and the analysis of a target
\* fails, the finished run has written a result of the mock analyzer for that
\* target under its key (no error from the cache assumed).
C25_SyntheticResultOnFailure ==
    (run.pc = "done" /\ analyzer = "claude" /\ trouble.sets = {}) =>
        \A n \in trouble.analysis :
            /\ sdkKey(n) \in DOMAIN db
            /\ db[sdkKey(n)].value = "{" \o n \o "," \o AnalysisVersion("mock") \o "}"

\* the results of the batch that starts at index b of the active SDKs
BatchEntries(b) == SelectSeq(results, LAMBDA e : e.i = b)

\* C22: each batch gets one BatchAnalyze call; the individual analysis runs
\* only after that call returned an error, goes through the batch's SDKs in
\* order, each exactly once, and never leads to another BatchAnalyze call; the
\* results of a batch all come from the job's maps or all from the individual
\* analysis.
C22_OnePathPerBatch ==
    /\ [](run.combined <= 1)
    /\ [](run.pc = "single" => run.i \in run.failed /\ run.combined = 1)
    /\ [](\A x \in DOMAIN results :
            results[x].path = IF results[x].i \in run.failed THEN "single"
                                                             ELSE "batch")
    /\ [](\A b \in run.failed :
            LET e == BatchEntries(b) IN
            /\ Len(e) <= Len(Batch(b))
            /\ \A x \in DOMAIN e : e[x].name = Batch(b)[x].name
            /\ (b # run.i \/ run.pc # "single") => Len(e) = Len(Batch(b)))
    /\ [][(run'.pc = "analyze" /\ run.pc # "analyze") => run.pc = "prep"]_vars

\* a run whose first batch went through the individual analysis after
\* BatchAnalyze failed, one SDK of it failing, and whose second batch went
\* through BatchAnalyze alone
C22_Witness ==
    /\ run.pc = "process"
    /\ run.failed = {0}
    /\ Len(results) = Len(GetActiveSDKs(Catalog))
    /\ results[1].path = "single" /\ results[1].err
    /\ results[batchSize].path = "single" /\ ~results[batchSize].err
    /\ results[Len(results)].path = "batch"

\* the sum of TokensUsed over the analyses of the names in S
RECURSIVE SumTokens(_, _)
SumTokens(f, S) ==
    IF S = {} THEN 0
    ELSE LET n == CHOOSE x \in S : TRUE
         IN f[n].TokensUsed + SumTokens(f, S \ {n})

\* the goroutine inside BatchAnalyze keeps running
FairBatch ==
    /\ WF_vars(\E ok \in BOOLEAN, u \in TokenCounts : AnalyzeOne(ok, u))
    /\ WF_vars(BatchDone)

\* C21: a BatchAnalyze call that has started returns, with a nil error, a job
\* whose Status is "completed", whose CompletedAt is set and whose TotalTokens
\* is the sum of TokensUsed over its Results, whatever failed and whether or
\* not the context was cancelled; a job's Status only ever changes from
\* "processing" to "completed", and there is no other status.
C21_BatchJobCompletes ==
    /\ [](job.Status \in {"none", "processing", "completed"})
    /\ [](run.pc = "convert" =>
            /\ job.Status = "completed"
            /\ job.CompletedAt # {}
            /\ job.TotalTokens = SumTokens(job.Analysis, job.Results))
    /\ [][job'.Status # job.Status =>
            \/ job.Status = "processing" /\ job'.Status = "completed"
            \/ job' = NewBatchResult(analyzer)]_vars
    /\ (run.pc = "analyze") ~> (run.pc = "convert")

\* the Claude analyzer's BatchAnalyze has returned a job with a result that
\* used tokens and with an error, the context having been cancelled on the way
C21_Witness ==
    /\ analyzer = "claude"
    /\ run.pc = "convert" /\ run.ctxDone
    /\ job.Results # {} /\ job.Errors # {}
    /\ job.TotalTokens > 0

-----------------------------------------------------------------------------
\* Specifications

\* the parts of the service a specification does not exercise stay as built
Built ==
    /\ CacheStart /\ StatsStart /\ ClientStart /\ OrchStart /\ EstimateStart
    /\ SchedStart /\ NeedStart /\ SplitStart

InitCache ==
    Built /\ config = [ClaudeAPIKey |-> "", UpdateSchedule |-> DefaultSchedule]

InitStats ==
    Built /\ config = [ClaudeAPIKey |-> "", UpdateSchedule |-> DefaultSchedule]

InitClient ==
    Built /\ config = [ClaudeAPIKey |-> "sk-key", UpdateSchedule |-> DefaultSchedule]

InitOrch == Built /\ config.UpdateSchedule = DefaultSchedule

SpecCache == InitCache /\ [][NextCache]_vars

SpecStats == InitStats /\ [][NextStats]_vars

SpecLimiter == InitClient /\ [][NextLimiter]_vars /\ FairLimiter

SpecEstimate == InitClient /\ [][NextEstimate]_vars

SpecClient == InitClient /\ [][NextClient]_vars

SpecOrch == InitOrch /\ [][NextOrch]_vars

InitFallback ==
    /\ CacheStart /\ StatsStart /\ ClientStart /\ EstimateStart
    /\ SchedStart /\ NeedStart /\ SplitStart
    /\ config = [ClaudeAPIKey |-> "", UpdateSchedule |-> DefaultSchedule]
    /\ RunInit /\ analyzer = "other"

SpecFallback == InitFallback /\ [][NextFallback]_vars

SpecNeeds == InitCache /\ [][NextNeeds]_vars

InitSched == Built /\ config.ClaudeAPIKey = ""

SpecSched == InitSched /\ [][NextSched]_vars

SpecBatch == InitOrch /\ [][NextAnalyze]_vars /\ FairBatch

\* sdks.yaml may hold any catalog of up to MaxCatalog entries
InitSplit ==
    /\ CacheStart /\ StatsStart /\ ClientStart /\ OrchStart /\ EstimateStart
    /\ SchedStart /\ NeedStart
    /\ config = [ClaudeAPIKey |-> "", UpdateSchedule |-> DefaultSchedule]
    /\ split \in {[NoSplit EXCEPT !.catalog = ConfigList(f)] : f \in Catalogs}

SpecSplit == InitSplit /\ [][NextSplit]_vars

====
